---- MODULE Spec2Model ----
(***************************************************************************)
(* Authentication and session-lifecycle protocol of zedslab/starter.       *)
(*                                                                         *)
(* Three specifications share this module:                                 *)
(*   Spec        the server's login handler and the lockout fields of the  *)
(*               user document (AuthController.login, userSchema methods)  *)
(*   SpecClient  the client's ApiService: the response interceptor, the    *)
(*               reactive refresh with its queue, the timer and manual     *)
(*               refresh paths                                             *)
(*   SpecCsrf    the CSRF guard (Security.csrfProtection) and the order in *)
(*               which config/app.js assembles the middleware              *)
(* Time is counted in ticks; one tick is half the lock duration.           *)
(***************************************************************************)
EXTENDS Integers, Sequences, FiniteSets, TLC

VARIABLES
    users,      \* email -> user document (the lockout fields, password, active flag)
    now,        \* the server clock (Date.now()), in ticks
    sessions,   \* session id -> [csrfToken, userId] (express-session document)
    cookies,    \* session id -> the refresh_token cookie of that browser
    csrfNext,   \* the next value crypto.randomBytes(32) yields (fresh each call)
    resp,       \* the last handled request and the response it got
    pre,        \* the user documents as they were before the last handled request
    \* ---- the client (ApiService instance and useAuth composable) ----
    isRefreshing,           \* ApiService.isRefreshing
    failedQueue,            \* ApiService.failedQueue: the requests waiting for the refresh
    retryCount,             \* ApiService.retryCount
    token,                  \* sessionStorage[tokenStorageKey]: the stored access token
    tokenExpirationTimer,   \* TRUE while the pre-expiry timer is armed
    csrfToken,              \* TRUE while ApiService.csrfToken holds a value
    cookieVisible,          \* document.cookie shows a refresh_token cookie
    accessToken,            \* useAuth.accessToken
    user,                   \* TRUE while useAuth.user holds the user data
    route,                  \* router.currentRoute.value.path
    reqs,                   \* the axios requests of the instance, by id
    tokenNext,              \* the next access token the server mints
    \* ---- the CSRF guard ----
    out,                    \* the last request put to the guard or the application, and its answer
    \* ---- credentials and sessions on the server ----
    jwtEnv,                 \* process.env.JWT_SECRET and process.env.JWT_REFRESH_SECRET
    access,                 \* session id -> the access token the browser of that session holds
    ans,                    \* the last request to refresh, logout, logout-all or a protected route, and its answer
    logoutAllAt,            \* account -> when it last logged out everywhere with no login since
    sessionDocs,            \* session id -> the userId and isActive fields of its store document
    \* ---- the client's CSRF token against the server's ----
    csrfHeld,               \* the value of ApiService.csrfToken (NoCsrf when null)
    posts,                  \* the state-changing requests of the client, by id
    fetches,                \* the GET /auth/csrf-token call each of them may make
    \* ---- login requests that are handled at the same time ----
    logins,                 \* request -> how far its handler is, and the user document it loaded
    failedChecks,           \* account -> failed password checks since the last reset of its counter
    \* ---- a call of useAuth.login or useAuth.logout ----
    error,                  \* useAuth error.value ("null" when null)
    call,                   \* the useAuth call under way or last made, and how it ended
    \* ---- roles and abilities ----
    roles,                  \* account -> user.roles of its document in the database
    payloadRoles,           \* session id -> the roles in the payload of the access token its browser holds
    reqAbility,             \* req.ability of the first and of the last request authenticated with a credential
    \* ---- the password of account a ----
    passwordDoc,            \* passwordHash and passwordHistory of the user document of a
    changeAns,              \* the last POST /auth/change-password: its body, the document before it, its answer
    accepted,               \* the new passwords of the change-password requests answered 200, in order
    \* ---- automatic re-sends ----
    resends                 \* request -> how often an error handler has sent it again

serverVars == <<users, now, sessions, cookies, csrfNext, resp, pre>>

authVars == <<jwtEnv, access, ans, logoutAllAt, sessionDocs>>

csrfClientVars == <<csrfHeld, posts, fetches>>

raceVars == <<logins, failedChecks>>

useAuthVars == <<error, call>>

permVars == <<roles, payloadRoles, reqAbility>>

pwVars == <<passwordDoc, changeAns, accepted>>

retryVars == <<resends>>

clientVars == <<isRefreshing, failedQueue, retryCount, token, tokenExpirationTimer,
                csrfToken, cookieVisible, accessToken, user, route, reqs, tokenNext>>

(***************************************************************************)
(* Bounds of the model                                                     *)
(***************************************************************************)
MaxTime == 5
MaxFailed == 6
MaxCsrf == 2
\* application requests the client sends
NumRequests == 2
\* login requests that may be in their handler at the same time
NumLogins == 2
\* access tokens the server mints for the useAuth calls
MaxMinted == 3
\* change-password requests answered 200
MaxChanges == 3
\* re-sends of one request that are counted
MaxResends == 4
\* if (user.passwordHistory.length >= 5) user.passwordHistory.shift()
HistorySize == 5
\* requests the ApiService itself may create (refresh calls, CSRF fetches)
MaxInternal == 2

(***************************************************************************)
(* Program constants                                                       *)
(***************************************************************************)
\* parseInt(process.env.MAX_LOGIN_ATTEMPTS || '5', 10)
MaxAttempts == 5
\* parseInt(process.env.LOCKOUT_TIME || '900000', 10), in ticks of 450000 ms
LockTime == 2
\* JWT_EXPIRES_IN || '15m', in ticks
AccessTtl == 2
\* JWT_REFRESH_EXPIRES_IN || '7d', in ticks (longer than any run of the model)
RefreshTtl == 20
\* lockUntil: { type: Date, default: null }
NoDate == 0
\* req.session.csrfToken is undefined until generateCsrfToken has run
NoCsrf == 0
\* this.maxRetries = parseInt(import.meta.env.VITE_MAX_RETRY_ATTEMPTS || '3', 10)
maxRetries == 3
\* crypto.randomBytes(32).toString("hex") is 64 characters long
HexLen == 64
\* sessionStorage.getItem(...) returns null when no token is stored
NoTok == 0
\* the access token the client holds at the start; the server no longer accepts it
OldToken == 1

Accounts == {"a", "b"}
Emails == {"a", "A", "b", "x", ""}
Passwords == {"p", "q", ""}
Sessions == {"s1", "s2"}
\* the browser session the login requests of Spec come from
LoginSessions == {"s1"}

NoToken == [kind |-> "none", sub |-> "none", exp |-> 0, key |-> "none"]

\* a string that is not a JWT
Malformed == [kind |-> "malformed", sub |-> "none", exp |-> 0, key |-> "none"]

\* the values the two secrets may be configured with
Secrets == {"k1", "k2"}

\* email.toLowerCase()
ToLowerCase(e) == IF e = "A" THEN "a" ELSE e

(***************************************************************************)
(* userSchema methods                                                      *)
(***************************************************************************)
\* this.isLocked && this.lockUntil && this.lockUntil > Date.now()
isAccountLocked(u, t) ==
    u.isLocked /\ u.lockUntil # NoDate /\ u.lockUntil > t

\* bcrypt.compare(candidatePassword, this.passwordHash)
comparePassword(u, candidate) == candidate = u.password

\* incrementLoginAttempts with the comparison > in place of >=
incrementLoginAttemptsOffByOne(u, t) ==
    LET n == u.failedLoginAttempts + 1 IN
    IF n > MaxAttempts
    THEN [u EXCEPT !.failedLoginAttempts = n, !.isLocked = TRUE,
                   !.lockUntil = t + LockTime]
    ELSE [u EXCEPT !.failedLoginAttempts = n]

incrementLoginAttempts(u, t) ==
    LET n == u.failedLoginAttempts + 1 IN
    IF n >= MaxAttempts
    THEN [u EXCEPT !.failedLoginAttempts = n, !.isLocked = TRUE,
                   !.lockUntil = t + LockTime]
    ELSE [u EXCEPT !.failedLoginAttempts = n]

\* resetLoginAttempts that zeroes the counter only
resetLoginAttemptsKeepLock(u) ==
    [u EXCEPT !.failedLoginAttempts = 0]

resetLoginAttempts(u) ==
    [u EXCEPT !.failedLoginAttempts = 0, !.isLocked = FALSE, !.lockUntil = NoDate]

\* a generateCsrfToken that leaves a token the session already has in place
generateCsrfTokenKeeping(sess, fresh) ==
    IF sess.csrfToken # NoCsrf THEN sess ELSE [sess EXCEPT !.csrfToken = fresh]

(***************************************************************************)
(* Security.generateCsrfToken: a fresh random value stored on the session  *)
(***************************************************************************)
generateCsrfToken(sess, fresh) == [sess EXCEPT !.csrfToken = fresh]

(***************************************************************************)
(* jwt.sign                                                                *)
(***************************************************************************)
SignAccess(e, t) ==
    [kind |-> "access", sub |-> e, exp |-> t + AccessTtl, key |-> jwtEnv.JWT_SECRET]
SignRefresh(e, t) ==
    [kind |-> "refresh", sub |-> e, exp |-> t + RefreshTtl, key |-> jwtEnv.JWT_REFRESH_SECRET]
\* verification that still accepts a token at the instant of its exp claim
verifyLate(tok, secret, t) ==
    IF tok.kind = "malformed" \/ tok.key # secret THEN "JsonWebTokenError"
    ELSE IF t > tok.exp THEN "TokenExpiredError"
    ELSE "ok"

\* verification that does not look at the key a token was signed with
verifyAnyKey(tok, secret, t) ==
    IF tok.kind = "malformed" THEN "JsonWebTokenError"
    ELSE IF t >= tok.exp THEN "TokenExpiredError"
    ELSE "ok"


\* jwt.verify(token, secret) at time t: the signature is checked first, then
\* the exp claim (expired when the clock is at or past it)
verify(tok, secret, t) ==
    IF tok.kind = "malformed" \/ tok.key # secret THEN "JsonWebTokenError"
    ELSE IF t >= tok.exp THEN "TokenExpiredError"
    ELSE "ok"

(***************************************************************************)
(* AuthController.login.  The result names the user documents, the session *)
(* and the cookie after the handler, and the response it sent.             *)
(***************************************************************************)
Response(e, pw, t, status, message, pwChecked, minted) ==
    [op |-> "login", email |-> e, password |-> pw, at |-> t,
     status |-> status, message |-> message,
     pwChecked |-> pwChecked, accessToken |-> minted, lockUntil |-> NoDate]

LoginOutcome(us, sess, cookie, fresh, r) ==
    [users |-> us, session |-> sess, cookie |-> cookie, csrfNext |-> fresh, resp |-> r]

login(us, sess, cookie, fresh, email, password, t) ==
    LET e == ToLowerCase(email) IN
    IF email = "" \/ password = ""
    THEN LoginOutcome(us, sess, cookie, fresh,
             Response(e, password, t, 400, "Email and password are required", FALSE, NoToken))
    ELSE IF e \notin Accounts
    THEN LoginOutcome(us, sess, cookie, fresh,
             Response(e, password, t, 401, "Invalid email or password", FALSE, NoToken))
    ELSE IF isAccountLocked(us[e], t)
    THEN LoginOutcome(us, sess, cookie, fresh,
             Response(e, password, t, 423, "Account is temporarily locked due to too many failed login attempts",
                      FALSE, NoToken))
    ELSE IF ~us[e].isActive
    THEN LoginOutcome(us, sess, cookie, fresh,
             Response(e, password, t, 401, "Account is not active", FALSE, NoToken))
    ELSE IF ~comparePassword(us[e], password)
    THEN LoginOutcome([us EXCEPT ![e] = incrementLoginAttempts(@, t)],
             sess, cookie, fresh,
             Response(e, password, t, 401, "Invalid email or password", TRUE, NoToken))
    ELSE IF jwtEnv.JWT_SECRET = "" \/ jwtEnv.JWT_REFRESH_SECRET = ""
    THEN LoginOutcome([us EXCEPT ![e] = resetLoginAttempts(@)],
             sess, cookie, fresh,
             Response(e, password, t, 500, "Authentication service not properly configured",
                      TRUE, NoToken))
    ELSE LoginOutcome([us EXCEPT ![e] = resetLoginAttempts(@)],
             [generateCsrfToken(sess, fresh) EXCEPT !.userId = e],
             SignRefresh(e, t), fresh + 1,
             Response(e, password, t, 200, "Login successful", TRUE, SignAccess(e, t)))

(***************************************************************************)
(* Initial state of the server: two registered accounts, no failures yet   *)
(***************************************************************************)
NewUser(active) ==
    [password |-> "p", isActive |-> active, failedLoginAttempts |-> 0,
     isLocked |-> FALSE, lockUntil |-> NoDate]

NewSession == [csrfToken |-> NoCsrf, userId |-> "none"]

NoResponse ==
    [op |-> "none", email |-> "", password |-> "", at |-> 0, status |-> 0, message |-> "", pwChecked |-> FALSE,
     accessToken |-> NoToken, lockUntil |-> NoDate]

ServerInit ==
    /\ users \in {[a |-> NewUser(TRUE), b |-> NewUser(act)] : act \in BOOLEAN}
    /\ now = 1
    /\ sessions = [s \in Sessions |-> NewSession]
    /\ cookies = [s \in Sessions |-> NoToken]
    /\ csrfNext = 1
    /\ resp = NoResponse
    /\ pre = users

\* an answer of refresh, logout, logout-all or a protected route: the session
\* and the tokens the request came with, the time, the session's CSRF token
\* before the request, the status and message, and the token minted
Answer(op, s, cookie, bearer, t, csrfBefore, status, message, minted) ==
    [op |-> op, sid |-> s, cookie |-> cookie, bearer |-> bearer, at |-> t,
     csrfBefore |-> csrfBefore, status |-> status, message |-> message,
     accessToken |-> minted]

NoAnswer == Answer("none", "s1", NoToken, NoToken, 0, NoCsrf, 0, "", NoToken)

\* refreshToken without the test of user.isActive
refreshTokenAnyUser(us, s, cookie, bearer, csrfBefore, t) ==
    IF cookie = NoToken
    THEN Answer("refresh", s, cookie, bearer, t, csrfBefore, 401,
                "Refresh token not provided", NoToken)
    ELSE IF verify(cookie, jwtEnv.JWT_REFRESH_SECRET, t) # "ok"
    THEN Answer("refresh", s, cookie, bearer, t, csrfBefore, 401,
                "Invalid or expired refresh token", NoToken)
    ELSE IF cookie.sub \notin Accounts
    THEN Answer("refresh", s, cookie, bearer, t, csrfBefore, 401,
                "Invalid refresh token", NoToken)
    ELSE Answer("refresh", s, cookie, bearer, t, csrfBefore, 200,
                "Token refreshed successfully", SignAccess(cookie.sub, t))

\* a refreshToken that also turns away the user of a locked account
refreshTokenUnlessLocked(us, s, cookie, bearer, csrfBefore, t) ==
    IF cookie = NoToken
    THEN Answer("refresh", s, cookie, bearer, t, csrfBefore, 401,
                "Refresh token not provided", NoToken)
    ELSE IF verify(cookie, jwtEnv.JWT_REFRESH_SECRET, t) # "ok"
    THEN Answer("refresh", s, cookie, bearer, t, csrfBefore, 401,
                "Invalid or expired refresh token", NoToken)
    ELSE IF cookie.sub \notin Accounts \/ ~us[cookie.sub].isActive \/ us[cookie.sub].isLocked
    THEN Answer("refresh", s, cookie, bearer, t, csrfBefore, 401,
                "Invalid refresh token", NoToken)
    ELSE Answer("refresh", s, cookie, bearer, t, csrfBefore, 200,
                "Token refreshed successfully", SignAccess(cookie.sub, t))

\* AuthController.refreshToken with the refresh_token cookie value cookie
refreshToken(us, s, cookie, bearer, csrfBefore, t) ==
    IF cookie = NoToken
    THEN Answer("refresh", s, cookie, bearer, t, csrfBefore, 401,
                "Refresh token not provided", NoToken)
    ELSE IF verify(cookie, jwtEnv.JWT_REFRESH_SECRET, t) # "ok"
    THEN Answer("refresh", s, cookie, bearer, t, csrfBefore, 401,
                "Invalid or expired refresh token", NoToken)
    ELSE IF cookie.sub \notin Accounts \/ ~us[cookie.sub].isActive
    THEN Answer("refresh", s, cookie, bearer, t, csrfBefore, 401,
                "Invalid refresh token", NoToken)
    ELSE Answer("refresh", s, cookie, bearer, t, csrfBefore, 200,
                "Token refreshed successfully", SignAccess(cookie.sub, t))

\* ApiService.isAuthenticated on the stored token at client time t: the exp
\* claim of the decoded payload is compared with the clock; the signature is
\* not looked at
isAuthenticated(tok, t) ==
    IF tok = NoToken THEN FALSE
    ELSE IF tok.kind = "malformed" THEN FALSE
    ELSE tok.exp > t

\* what a middleware decided: status 0 is next(), with req.user set to user
Passed(u) == [status |-> 0, message |-> "", user |-> u]
Refused(status, message) == [status |-> status, message |-> message, user |-> "none"]

\* AuthMiddleware.authenticate on the token of the Authorization header
authenticate(us, bearer, t) ==
    IF bearer = NoToken THEN Refused(401, "Access token is required")
    ELSE LET v == verify(bearer, jwtEnv.JWT_SECRET, t) IN
         IF v = "JsonWebTokenError" THEN Refused(401, "Invalid access token")
         ELSE IF v = "TokenExpiredError" THEN Refused(401, "Access token has expired")
         ELSE IF bearer.sub \notin Accounts THEN Refused(401, "Invalid access token")
         ELSE IF ~us[bearer.sub].isActive THEN Refused(401, "Account is not active")
         ELSE IF isAccountLocked(us[bearer.sub], t)
         THEN Refused(423, "Account is temporarily locked")
         ELSE Passed(bearer.sub)

\* AuthMiddleware.checkAccountStatus after authenticate set req.user
checkAccountStatus(us, u, t) ==
    IF u \notin Accounts THEN Refused(401, "User not found")
    ELSE IF ~us[u].isActive THEN Refused(401, "Account is not active")
    ELSE IF isAccountLocked(us[u], t) THEN Refused(423, "Account is temporarily locked")
    ELSE Passed(u)

\* what a handler left: the session document, the refresh_token cookie of the
\* browser, and the answer
Handled(sess, cookie, a) == [session |-> sess, cookie |-> cookie, ans |-> a]

\* logout that refuses a session nobody is logged in on
logoutOnce(s, sess, cookie, bearer, t) ==
    IF sess.userId = "none"
    THEN Handled(sess, cookie,
             Answer("logout", s, cookie, bearer, t, sess.csrfToken, 400,
                    "Not logged in", NoToken))
    ELSE Handled(NewSession, NoToken,
             Answer("logout", s, cookie, bearer, t, sess.csrfToken, 200,
                    "Logout successful", NoToken))

\* AuthController.logout: req.session.destroy, res.clearCookie, 200
logout(s, sess, cookie, bearer, t) ==
    Handled(NewSession, NoToken,
        Answer("logout", s, cookie, bearer, t, sess.csrfToken, 200,
               "Logout successful", NoToken))

\* the fields userId and isActive of a document of express_sessions as the
\* Session model reads it: the store writes _id, expires and session only, so
\* both have their schema defaults
NewDoc == [userId |-> "none", isActive |-> TRUE]

\* Session.getActiveSessionsForUser
getActiveSessionsForUser(docs, u) ==
    {s \in Sessions : docs[s].userId = u /\ docs[s].isActive}

\* Session.invalidateUserSessions: updateMany({userId, isActive: true}, {isActive: false})
invalidateUserSessions(docs, u) ==
    [s \in Sessions |->
        IF docs[s].userId = u /\ docs[s].isActive
        THEN [docs[s] EXCEPT !.isActive = FALSE]
        ELSE docs[s]]

\* AuthController.logoutAll for req.user u on the session s of the request
logoutAll(docs, s, sess, cookie, bearer, u, t) ==
    [docs |-> [invalidateUserSessions(docs, u) EXCEPT ![s] = NewDoc],
     session |-> NewSession,
     cookie |-> NoToken,
     ans |-> Answer("logoutAll", s, cookie, bearer, t, sess.csrfToken, 200,
                    "Logged out from all devices successfully", NoToken)]

\* AuthController.getProfile
getProfile(s, sess, cookie, bearer, t) ==
    Answer("profile", s, cookie, bearer, t, sess.csrfToken, 200,
           "Profile retrieved successfully", NoToken)

\* authenticate, then checkAccountStatus: the first refusal, or next()
authenticated(us, bearer, t) ==
    LET m == authenticate(us, bearer, t) IN
    IF m.status # 0 THEN m ELSE checkAccountStatus(us, m.user, t)

AuthInit ==
    /\ sessionDocs = [s \in Sessions |-> NewDoc]
    /\ jwtEnv \in {[JWT_SECRET |-> "k1", JWT_REFRESH_SECRET |-> k] : k \in Secrets}
    /\ access = [s \in Sessions |-> NoToken]
    /\ ans = NoAnswer
    /\ logoutAllAt = [e \in Accounts |-> NoDate]

(***************************************************************************)
(* AuthController.login as the event loop runs it: the handler awaits       *)
(* User.findOne, then bcrypt, then user.save(), and other requests are      *)
(* handled in between.                                                      *)
(***************************************************************************)
LoginIds == 1..NumLogins

\* the browser a login request comes from
SessionOf(i) == IF i = 1 THEN "s1" ELSE "s2"

NoLogin == [st |-> "idle", password |-> "", doc |-> NewUser(TRUE), status |-> 0]

RaceInit ==
    /\ logins = [i \in LoginIds |-> NoLogin]
    /\ failedChecks = [e \in Accounts |-> 0]

\* document.save(): the paths the handler changed on its copy are written,
\* the others stay as the database has them
save(stored, loaded, changed) ==
    [f \in DOMAIN stored |-> IF changed[f] # loaded[f] THEN changed[f] ELSE stored[f]]

\* User.findOne for account a, the lock test and the active test of login
LoginFind(i, password) ==
    LET doc == users["a"] IN
    /\ logins[i].st = "idle"
    /\ logins' = [logins EXCEPT ![i] =
           IF isAccountLocked(doc, now)
           THEN [st |-> "idle", password |-> password, doc |-> doc, status |-> 423]
           ELSE IF ~doc.isActive
           THEN [st |-> "idle", password |-> password, doc |-> doc, status |-> 401]
           ELSE [st |-> "found", password |-> password, doc |-> doc, status |-> 0]]
    /\ UNCHANGED <<serverVars, authVars, failedChecks>>

\* comparePassword on the loaded copy, then incrementLoginAttempts or
\* resetLoginAttempts on that copy with its save, and the rest of login
LoginSave(i) ==
    LET doc == logins[i].doc
        s == SessionOf(i)
    IN /\ logins[i].st = "found"
       /\ IF ~comparePassword(doc, logins[i].password)
          THEN /\ failedChecks["a"] < MaxFailed
               /\ users' = [users EXCEPT !["a"] = save(@, doc, incrementLoginAttempts(doc, now))]
               /\ failedChecks' = [failedChecks EXCEPT !["a"] = @ + 1]
               /\ logins' = [logins EXCEPT ![i].st = "idle", ![i].status = 401]
               /\ UNCHANGED <<now, sessions, cookies, csrfNext, resp, pre, authVars>>
          ELSE /\ csrfNext <= MaxCsrf
               /\ users' = [users EXCEPT !["a"] = save(@, doc, resetLoginAttempts(doc))]
               /\ failedChecks' = [failedChecks EXCEPT !["a"] = 0]
               /\ logins' = [logins EXCEPT ![i].st = "idle", ![i].status = 200]
               /\ sessions' = [sessions EXCEPT ![s] =
                                   [generateCsrfToken(@, csrfNext) EXCEPT !.userId = "a"]]
               /\ cookies' = [cookies EXCEPT ![s] = SignRefresh("a", now)]
               /\ csrfNext' = csrfNext + 1
               /\ access' = [access EXCEPT ![s] = SignAccess("a", now)]
               /\ UNCHANGED <<now, resp, pre, jwtEnv, ans, logoutAllAt, sessionDocs>>

(***************************************************************************)
(* Roles and abilities: defineAbilityFor, and req.ability as authenticate   *)
(* and checkAccountStatus set it.                                           *)
(***************************************************************************)
\* the role sets an account is given
RoleSets == {{"APPLICANT"}, {"INTERNAL"}, {"APPLICANT", "ADMINISTRATOR"}}

\* can(verbs, subjects, conditions): one rule per verb and subject
can(verbs, subjects, cond) ==
    {[verb |-> v, subject |-> x, cond |-> cond, inverted |-> FALSE] : v \in verbs, x \in subjects}

Crud == {"create", "read", "update", "delete"}

InternalRead ==
    {"Organization", "Contact", "Role", "GrantProgram", "GrantApplication", "GrantAward",
     "GrantPayment", "GrantReport", "ApplicationReview", "ReviewCommittee", "AuditTrail",
     "PublicDisclosure", "User"}

InternalWrite ==
    {"Organization", "Contact", "GrantProgram", "GrantApplication", "GrantAward", "GrantPayment",
     "GrantReport", "ApplicationReview", "ReviewCommittee", "PublicDisclosure"}

\* the rules one role adds for user u
RulesOfRole(role, u) ==
    CASE role = "APPLICANT" ->
            can(Crud, {"Organization", "Role"}, <<"createdBy", u>>)
            \cup can(Crud, {"Contact"}, <<"organization", u>>)
            \cup can({"create", "read", "update"}, {"GrantApplication"}, <<"applicantOrganization", u>>)
            \cup can({"create", "read", "update"}, {"GrantReport"}, <<"submittedBy", u>>)
            \cup can({"update"}, {"User"}, <<"_id", u>>)
      [] role = "INTERNAL" ->
            can({"read"}, InternalRead, <<"ministryId", u>>)
            \cup can({"update", "delete"}, InternalWrite, <<"ministryId", u>>)
            \cup can({"create"}, {"GrantProgram", "GrantAward", "GrantPayment", "ApplicationReview",
                                  "ReviewCommittee", "PublicDisclosure"}, <<>>)
            \cup can({"approve"}, {"GrantApplication", "GrantPayment"}, <<"ministryId", u>>)
      [] role = "ADVANCED" ->
            can({"create", "update", "delete"}, {"Metadata", "FiscalYear", "Department", "Branch"}, <<>>)
      [] role = "ADMINISTRATOR" -> can(Crud, {"Ministry", "User", "Role"}, <<>>)
      [] role = "SUPER_ADMIN" -> can({"manage"}, {"all"}, <<>>)
      [] OTHER -> {}

\* defineAbilityFor(user) for the user u whose user.roles is rs
defineAbilityFor(u, rs) ==
    IF u = "none"
    THEN can({"read"}, {"Metadata", "FiscalYear", "Ministry", "Department", "Branch"}, <<>>)
    ELSE UNION {RulesOfRole(role, u) : role \in rs}
         \cup {[verb |-> "delete", subject |-> "User", cond |-> <<"roles", "SUPER_ADMIN">>,
                inverted |-> TRUE]}

\* no request has been authenticated with the credential yet
NoAbility == {}

PermInit ==
    /\ roles = [e \in Accounts |-> {"APPLICANT"}]
    /\ payloadRoles = [s \in Sessions |-> {}]
    /\ reqAbility = [bearer |-> NoToken, first |-> NoAbility, last |-> NoAbility]

(***************************************************************************)
(* The password of an account: the pre-save hook of the user schema,       *)
(* isPasswordUsedBefore and AuthController.changePassword.                  *)
(***************************************************************************)
\* the passwords a change-password request may carry
PasswordChoices == {"p", "q", "r"}

\* bcrypt.hash: the salted hash of a password
bcryptHash(password) == <<"bcrypt", password>>

\* bcrypt.compare
bcryptCompare(candidate, hash) == hash = bcryptHash(candidate)

\* the paths of userSchema that concern the password; the schema declares no
\* path named password
SchemaPaths == {"passwordHash", "passwordSalt", "lastPasswordChange", "passwordHistory"}

\* Document.isModified(path) after the handler assigned the properties in
\* assigned: only a path of the schema is tracked
isModified(path, assigned) == path \in SchemaPaths /\ path \in assigned

\* userSchema.pre('save') for a document whose property password was set
preSave(doc, password, assigned) ==
    IF password # "" /\ isModified("password", assigned)
    THEN LET kept == IF Len(doc.passwordHistory) >= HistorySize
                     THEN Tail(doc.passwordHistory) ELSE doc.passwordHistory
         IN [passwordHash |-> bcryptHash(password),
             passwordHistory |-> Append(kept, doc.passwordHash)]
    ELSE doc

\* userSchema.methods.isPasswordUsedBefore
isPasswordUsedBefore(doc, candidate) ==
    \E i \in 1..Len(doc.passwordHistory) : bcryptCompare(candidate, doc.passwordHistory[i])

\* AuthController.changePassword for req.user doc
changePassword(doc, currentPassword, newPassword) ==
    IF ~bcryptCompare(currentPassword, doc.passwordHash)
    THEN [doc |-> doc, status |-> 400, message |-> "Current password is incorrect"]
    ELSE IF isPasswordUsedBefore(doc, newPassword)
    THEN [doc |-> doc, status |-> 400,
          message |-> "New password cannot be the same as a previously used password"]
    ELSE [doc |-> preSave(doc, newPassword, {"password"}), status |-> 200,
          message |-> "Password changed successfully"]

NoChange ==
    [currentPassword |-> "", newPassword |-> "",
     before |-> [passwordHash |-> bcryptHash("p"), passwordHistory |-> <<>>],
     status |-> 0, message |-> ""]

\* account a as bootstrap creates it: a hash of its password, no history
PwInit ==
    /\ passwordDoc = [passwordHash |-> bcryptHash("p"), passwordHistory |-> <<>>]
    /\ changeAns = NoChange
    /\ accepted = <<>>

\* POST /api/auth/change-password from the logged-in user a
ChangePassword(currentPassword, newPassword) ==
    LET r == changePassword(passwordDoc, currentPassword, newPassword) IN
    /\ Len(accepted) < MaxChanges
    /\ passwordDoc' = r.doc
    /\ changeAns' = [currentPassword |-> currentPassword, newPassword |-> newPassword,
                     before |-> passwordDoc, status |-> r.status, message |-> r.message]
    /\ accepted' = IF r.status = 200 THEN Append(accepted, newPassword) ELSE accepted

(***************************************************************************)
(* Actions of Spec                                                         *)
(***************************************************************************)
\* POST /api/auth/login from the browser holding session s
Login(s, email, password) ==
    LET r == login(users, sessions[s], cookies[s], csrfNext, email, password, now) IN
    /\ \A e \in Accounts : r.users[e].failedLoginAttempts <= MaxFailed
    /\ r.csrfNext <= MaxCsrf + 1
    /\ users' = r.users
    /\ sessions' = [sessions EXCEPT ![s] = r.session]
    /\ cookies' = [cookies EXCEPT ![s] = r.cookie]
    /\ csrfNext' = r.csrfNext
    /\ resp' = r.resp
    /\ pre' = users
    /\ UNCHANGED now

\* the clock advances
Tick ==
    /\ now < MaxTime
    /\ now' = now + 1
    /\ UNCHANGED <<users, sessions, cookies, csrfNext, resp, pre>>

(***************************************************************************)
(* The client's CSRF token: the request interceptor of a state-changing    *)
(* request, ensureCsrfToken, fetchCsrfToken, and the server's              *)
(* GET /auth/csrf-token and its validation of the request.                 *)
(***************************************************************************)
PostIds == 1..NumRequests

\* a state-changing request: where it is, the X-CSRF-Token header it was sent
\* with, and the session's token when the server validated it
NewPost == [st |-> "idle", hdr |-> NoCsrf, stored |-> NoCsrf]

NewFetch == [st |-> "none", tok |-> NoCsrf]

CsrfClientInit ==
    /\ csrfHeld = NoCsrf
    /\ posts = [p \in PostIds |-> NewPost]
    /\ fetches = [p \in PostIds |-> NewFetch]

\* api.post(...): the request interceptor runs ensureCsrfToken; with a token
\* held the request goes out with it, otherwise fetchCsrfToken sends the GET
StartPost(p) ==
    /\ posts[p].st = "idle"
    /\ IF csrfHeld # NoCsrf
       THEN /\ posts' = [posts EXCEPT ![p].st = "wire", ![p].hdr = csrfHeld]
            /\ UNCHANGED fetches
       ELSE /\ posts' = [posts EXCEPT ![p].st = "ensureCsrf"]
            /\ fetches' = [fetches EXCEPT ![p].st = "wire"]
    /\ UNCHANGED <<csrfHeld, sessions, csrfNext>>

\* the server handles GET /auth/csrf-token on session s1: generateCsrfToken
\* stores a new token in the session and the response carries it
ServeFetch(p) ==
    /\ fetches[p].st = "wire"
    /\ csrfNext <= MaxCsrf + 1
    /\ sessions' = [sessions EXCEPT !["s1"] = generateCsrfToken(@, csrfNext)]
    /\ csrfNext' = csrfNext + 1
    /\ fetches' = [fetches EXCEPT ![p].st = "answered", ![p].tok = csrfNext]
    /\ UNCHANGED <<csrfHeld, posts>>

\* the answer of the GET fails (the error is caught in fetchCsrfToken)
FailFetch(p) ==
    /\ fetches[p].st = "wire"
    /\ fetches' = [fetches EXCEPT ![p].st = "failed"]
    /\ posts' = [posts EXCEPT ![p].st = "wire", ![p].hdr = csrfHeld]
    /\ UNCHANGED <<csrfHeld, sessions, csrfNext>>

\* the answer of the GET arrives: setCsrfToken, then the interceptor of the
\* waiting request reads getCsrfToken and the request goes out
FetchDone(p) ==
    /\ fetches[p].st = "answered"
    /\ csrfHeld' = fetches[p].tok
    /\ fetches' = [fetches EXCEPT ![p].st = "done"]
    /\ posts' = [posts EXCEPT ![p].st = "wire", ![p].hdr = fetches[p].tok]
    /\ UNCHANGED <<sessions, csrfNext>>

\* the server validates the request against the token of the session
ValidatePost(p) ==
    /\ posts[p].st = "wire"
    /\ posts' = [posts EXCEPT ![p].st = "validated",
                              ![p].stored = sessions["s1"].csrfToken]
    /\ UNCHANGED <<csrfHeld, fetches, sessions, csrfNext>>

(***************************************************************************)
(* Actions of SpecAuth                                                     *)
(***************************************************************************)
\* the refresh_token values a request may carry: none, a string that is not
\* a JWT, the tokens the browser holds, and tokens of any subject, expiry and
\* signing key (minted earlier, or forged; "x" is an account since deleted)
CookieValues(s) ==
    {NoToken, Malformed, cookies[s], access[s],
     [kind |-> "refresh", sub |-> "a", exp |-> 1, key |-> jwtEnv.JWT_REFRESH_SECRET],
     [kind |-> "refresh", sub |-> "a", exp |-> MaxTime + 1, key |-> "forged"],
     [kind |-> "refresh", sub |-> "b", exp |-> MaxTime + 1, key |-> jwtEnv.JWT_REFRESH_SECRET],
     [kind |-> "refresh", sub |-> "x", exp |-> MaxTime + 1, key |-> jwtEnv.JWT_REFRESH_SECRET]}

\* POST /api/auth/login from the browser of session s, which keeps the tokens
LoginAs(s, email, password) ==
    LET r == login(users, sessions[s], cookies[s], csrfNext, email, password, now) IN
    /\ \A e \in Accounts : r.users[e].failedLoginAttempts <= MaxFailed
    /\ r.csrfNext <= MaxCsrf + 1
    /\ users' = r.users
    /\ sessions' = [sessions EXCEPT ![s] = r.session]
    /\ cookies' = [cookies EXCEPT ![s] = r.cookie]
    /\ csrfNext' = r.csrfNext
    /\ ans' = Answer("login", s, cookies[s], access[s], now, sessions[s].csrfToken,
                     r.resp.status, r.resp.message, r.resp.accessToken)
    /\ access' = [access EXCEPT ![s] =
                     IF r.resp.status = 200 THEN r.resp.accessToken ELSE @]
    /\ logoutAllAt' = IF r.resp.status = 200
                      THEN [logoutAllAt EXCEPT ![r.resp.email] = NoDate]
                      ELSE logoutAllAt
    /\ UNCHANGED <<now, resp, pre, jwtEnv, sessionDocs>>

\* POST /api/auth/refresh from the browser of session s
Refresh(s, cookie, bearer) ==
    LET a == refreshToken(users, s, cookie, bearer, sessions[s].csrfToken, now) IN
    /\ ans' = a
    /\ access' = [access EXCEPT ![s] = IF a.status = 200 THEN a.accessToken ELSE @]
    /\ UNCHANGED <<users, now, sessions, cookies, csrfNext, resp, pre, jwtEnv, logoutAllAt, sessionDocs>>

\* the Authorization tokens a request from the browser of session s may carry
BearerValues(s) == {NoToken, Malformed, access[s], cookies[s]}

\* POST /api/auth/logout from the browser of session s: authenticate, logout
Logout(s, bearer) ==
    LET m == authenticate(users, bearer, now)
        h == IF m.status # 0
             THEN Handled(sessions[s], cookies[s],
                      Answer("logout", s, cookies[s], bearer, now, sessions[s].csrfToken,
                             m.status, m.message, NoToken))
             ELSE logout(s, sessions[s], cookies[s], bearer, now)
    IN /\ sessions' = [sessions EXCEPT ![s] = h.session]
       /\ cookies' = [cookies EXCEPT ![s] = h.cookie]
       /\ ans' = h.ans
       /\ UNCHANGED <<users, now, csrfNext, resp, pre, jwtEnv, access, logoutAllAt, sessionDocs>>

\* POST /api/auth/logout-all from the browser of session s: authenticate,
\* checkAccountStatus, logoutAll
LogoutAll(s, bearer) ==
    LET m == authenticated(users, bearer, now)
        h == logoutAll(sessionDocs, s, sessions[s], cookies[s], bearer, m.user, now)
    IN IF m.status # 0
       THEN /\ ans' = Answer("logoutAll", s, cookies[s], bearer, now, sessions[s].csrfToken,
                             m.status, m.message, NoToken)
            /\ UNCHANGED <<users, now, sessions, cookies, csrfNext, resp, pre, jwtEnv,
                           access, logoutAllAt, sessionDocs>>
       ELSE /\ sessionDocs' = h.docs
            /\ sessions' = [sessions EXCEPT ![s] = h.session]
            /\ cookies' = [cookies EXCEPT ![s] = h.cookie]
            /\ ans' = h.ans
            /\ logoutAllAt' = [logoutAllAt EXCEPT ![m.user] = now]
            /\ UNCHANGED <<users, now, csrfNext, resp, pre, jwtEnv, access>>

\* a protected read that clears the lock fields of accounts whose lock has run out
ProfileClearingExpiredLock(s, bearer) ==
    LET m == authenticated(users, bearer, now) IN
    /\ ans' = IF m.status # 0
              THEN Answer("profile", s, cookies[s], bearer, now, sessions[s].csrfToken,
                          m.status, m.message, NoToken)
              ELSE getProfile(s, sessions[s], cookies[s], bearer, now)
    /\ users' = [e \in Accounts |->
                    IF users[e].isLocked /\ ~isAccountLocked(users[e], now)
                    THEN resetLoginAttempts(users[e])
                    ELSE users[e]]
    /\ UNCHANGED <<now, sessions, cookies, csrfNext, resp, pre, jwtEnv, access,
                   logoutAllAt, sessionDocs>>

\* GET /api/auth/profile from the browser of session s: authenticate,
\* checkAccountStatus, getProfile
Profile(s, bearer) ==
    LET m == authenticated(users, bearer, now) IN
    /\ ans' = IF m.status # 0
              THEN Answer("profile", s, cookies[s], bearer, now, sessions[s].csrfToken,
                          m.status, m.message, NoToken)
              ELSE getProfile(s, sessions[s], cookies[s], bearer, now)
    /\ UNCHANGED <<users, now, sessions, cookies, csrfNext, resp, pre, jwtEnv, access,
                   logoutAllAt, sessionDocs>>

\* login from the browser of session s1: jwt.sign puts user.roles in the payload
LoginWithRoles(password) ==
    /\ LoginAs("s1", "a", password)
    /\ payloadRoles' = [payloadRoles EXCEPT !["s1"] = IF ans'.status = 200 THEN roles["a"] ELSE @]
    /\ UNCHANGED <<roles, reqAbility>>

\* a request from the browser of session s1 to a route behind authenticate
\* and checkAccountStatus: req.ability when the handler is reached
AuthenticatedRequest ==
    LET bearer == access["s1"]
        m == authenticated(users, bearer, now)
        ability == defineAbilityFor(m.user, roles[m.user])
    IN /\ Profile("s1", bearer)
       /\ reqAbility' = IF m.status # 0 THEN reqAbility
                        ELSE IF reqAbility.bearer = bearer
                        THEN [reqAbility EXCEPT !.last = ability]
                        ELSE [bearer |-> bearer, first |-> ability, last |-> ability]
       /\ UNCHANGED <<roles, payloadRoles>>

\* the roles of an account are changed in the database
UpdateRoles(e, rs) ==
    /\ roles' = [roles EXCEPT ![e] = rs]
    /\ UNCHANGED <<payloadRoles, reqAbility>>

(***************************************************************************)
(* The client.  Handlers are functions of the client state c, a record of  *)
(* the client variables; an action applies a handler to the current state. *)
(* A handler runs from the arrival of its event to its next await, as one  *)
(* JavaScript task does.                                                   *)
(***************************************************************************)
AppIds == 1..NumRequests
InternalIds == (NumRequests + 1)..(NumRequests + MaxInternal)
ReqIds == AppIds \cup InternalIds

Caller == [by |-> "caller", req |-> 0]
NoGot == [ok |-> FALSE, tok |-> NoTok, err |-> "", by |-> 0]

\* a request record: kind is the endpoint ("app": an application GET,
\* "refresh": POST /auth/refresh, "csrf": GET /auth/csrf-token), st the place
\* it is at, hdr the token of its Authorization header, retry its _retry flag,
\* owner the code awaiting its promise, res how the promise settled, status
\* the last HTTP status it was answered with, seen401 whether it was ever
\* answered 401, got what processQueue handed it, minted the access token its
\* response carried
NewRequest(kind, owner) ==
    [kind |-> kind, st |-> "free", hdr |-> NoTok, retry |-> FALSE, owner |-> owner,
     res |-> "", status |-> 0, seen401 |-> FALSE, got |-> NoGot, minted |-> NoTok]

ClientState ==
    [isRefreshing |-> isRefreshing, failedQueue |-> failedQueue,
     retryCount |-> retryCount, token |-> token,
     tokenExpirationTimer |-> tokenExpirationTimer, csrfToken |-> csrfToken,
     cookieVisible |-> cookieVisible, accessToken |-> accessToken, user |-> user,
     route |-> route, reqs |-> reqs, overflow |-> FALSE]

FreeSlots(c) == {i \in InternalIds : c.reqs[i].kind = "none"}

AllocSlot(c) == CHOOSE i \in FreeSlots(c) : \A j \in FreeSlots(c) : i <= j

\* a hasRefreshToken that does not look at document.cookie
hasRefreshTokenAssumed(c) == TRUE

\* ApiService.hasRefreshToken / useAuth.hasRefreshToken
hasRefreshToken(c) == c.cookieVisible

\* ApiService.clearToken
clearToken(c) == [c EXCEPT !.token = NoTok, !.tokenExpirationTimer = FALSE]

\* ApiService.clearAuth
clearAuth(c) == [clearToken(c) EXCEPT !.csrfToken = FALSE]

\* ApiService.redirectToLogin
redirectToLogin(c) == [c EXCEPT !.route = "/login"]

\* useAuth.clearAuth
useAuthClearAuth(c) == [clearToken(c) EXCEPT !.user = FALSE, !.accessToken = NoTok]

\* the end of the request interceptor and the send: the Authorization header
\* is overwritten with the stored token when there is one
PutOnWire(c, r) ==
    [c EXCEPT !.reqs[r].st = "flight",
              !.reqs[r].hdr = IF c.token # NoTok THEN c.token ELSE @]

\* this.api(config): the request interceptor awaits ensureCsrfToken for a
\* state-changing request, which fetches GET /auth/csrf-token when no CSRF
\* token is held
Dispatch(c, r) ==
    IF c.reqs[r].kind = "refresh" /\ ~c.csrfToken
    THEN IF FreeSlots(c) = {}
         THEN [c EXCEPT !.overflow = TRUE]
         ELSE LET x == AllocSlot(c)
                  c1 == [c EXCEPT !.reqs[r].st = "ensureCsrf",
                                  !.reqs[x] = NewRequest("csrf", [by |-> "ensure", req |-> r])]
              IN PutOnWire(c1, x)
    ELSE PutOnWire(c, r)

\* a new POST /auth/refresh awaited by owner
PostRefresh(c, owner) ==
    IF FreeSlots(c) = {}
    THEN [c EXCEPT !.overflow = TRUE]
    ELSE LET q == AllocSlot(c) IN
         Dispatch([c EXCEPT !.reqs[q] = NewRequest("refresh", owner)], q)

\* processQueue that resolves each waiter with the token of its own header
processQueueStale(c, isErr, tok, err, by) ==
    [c EXCEPT !.failedQueue = <<>>,
              !.reqs = [i \in ReqIds |->
                  IF \E k \in DOMAIN c.failedQueue : c.failedQueue[k] = i
                  THEN [c.reqs[i] EXCEPT !.st = "drained",
                            !.got = [ok |-> ~isErr, tok |-> c.reqs[i].hdr, err |-> err, by |-> by]]
                  ELSE c.reqs[i]]]

\* ApiService.processQueue: every waiter is resolved with the token or
\* rejected with the error, and the queue is emptied
processQueue(c, isErr, tok, err, by) ==
    [c EXCEPT !.failedQueue = <<>>,
              !.reqs = [i \in ReqIds |->
                  IF \E k \in DOMAIN c.failedQueue : c.failedQueue[k] = i
                  THEN [c.reqs[i] EXCEPT !.st = "drained",
                            !.got = [ok |-> ~isErr, tok |-> tok, err |-> err, by |-> by]]
                  ELSE c.reqs[i]]]

RECURSIVE Settle(_, _, _, _, _)
RECURSIVE RunDrained(_, _)

\* the continuations of the waiters processQueue settled, in queue order:
\* a resolved waiter sets its header to the token and re-sends its request,
\* a rejected one rejects its request
RunDrained(c, waiters) ==
    IF waiters = <<>> THEN c
    ELSE LET x == Head(waiters)
             g == c.reqs[x].got
             c1 == IF g.ok
                   THEN Dispatch([c EXCEPT !.reqs[x].hdr = g.tok], x)
                   ELSE Settle(c, x, FALSE, NoTok, g.err)
         IN RunDrained(c1, Tail(waiters))

\* the success branch of handleUnauthorizedError for request p, after its
\* refresh call q returned tok
RefreshSucceeded(c, p, q, tok) ==
    LET waiters == c.failedQueue
        c1 == [c EXCEPT !.token = tok, !.tokenExpirationTimer = TRUE]
        c2 == [processQueue(c1, FALSE, tok, "", q) EXCEPT !.retryCount = 0]
        c3 == [c2 EXCEPT !.reqs[p].hdr = tok, !.isRefreshing = FALSE]
    IN RunDrained(Dispatch(c3, p), waiters)

\* the catch branch of handleUnauthorizedError for request p with refreshError err
RefreshFailed(c, p, q, err) ==
    LET waiters == c.failedQueue
        c1 == redirectToLogin(clearAuth(processQueue(c, TRUE, NoTok, err, q)))
        c2 == [c1 EXCEPT !.isRefreshing = FALSE]
    IN Settle(RunDrained(c2, waiters), p, FALSE, NoTok, err)

\* the promise of request r settles: the code awaiting it goes on
Settle(c, r, ok, tok, err) ==
    LET o == c.reqs[r].owner
        c0 == [c EXCEPT !.reqs[r].st = "done",
                        !.reqs[r].res = IF ok THEN "ok" ELSE err,
                        !.reqs[r].minted = tok]
    IN CASE o.by = "caller" -> c0
         [] o.by = "ensure" ->
              \* fetchCsrfToken stores the token or swallows the error; then the
              \* request interceptor of the waiting request goes on
              PutOnWire(IF ok THEN [c0 EXCEPT !.csrfToken = TRUE] ELSE c0, o.req)
         [] o.by = "reactive" ->
              IF ok THEN RefreshSucceeded(c0, o.req, r, tok)
              ELSE RefreshFailed(c0, o.req, r, err)
         [] o.by = "timer" ->
              \* ApiService.refreshToken called by the timer callback
              IF ok THEN [c0 EXCEPT !.token = tok, !.tokenExpirationTimer = TRUE]
              ELSE redirectToLogin(clearAuth(c0))
         [] o.by = "useAuth" ->
              \* useAuth.refreshToken: setToken on success, clearAuth on failure
              IF ok THEN [c0 EXCEPT !.token = tok, !.accessToken = tok]
              ELSE useAuthClearAuth(c0)

\* ApiService.handleUnauthorizedError up to its first await
handleUnauthorizedError(c, r) ==
    IF c.isRefreshing
    THEN [c EXCEPT !.failedQueue = Append(@, r), !.reqs[r].st = "queued"]
    ELSE IF c.retryCount >= maxRetries
    THEN Settle(redirectToLogin(clearAuth(c)), r, FALSE, NoTok, "e401")
    ELSE LET c1 == [c EXCEPT !.reqs[r].retry = TRUE, !.isRefreshing = TRUE] IN
         IF ~hasRefreshToken(c1)
         THEN RefreshFailed(c1, r, 0, "NoRefreshToken")
         ELSE [c1 EXCEPT !.reqs[r].st = "backoff"]

\* handleServerError up to its await of the delay
handleServerError(c, r) ==
    IF c.retryCount < maxRetries
    THEN [c EXCEPT !.reqs[r].st = "retryDelay"]
    ELSE Settle(c, r, FALSE, NoTok, "e500")

\* the error handler of the response interceptor for an answer with status
responseError(c, r, status) ==
    LET c1 == [c EXCEPT !.reqs[r].status = status,
                        !.reqs[r].seen401 = @ \/ status = 401] IN
    IF status = 401 /\ ~c.reqs[r].retry THEN handleUnauthorizedError(c1, r)
    ELSE IF status >= 500 THEN handleServerError(c1, r)
    ELSE Settle(c1, r, FALSE, NoTok, "e401")

\* the success handler of the response interceptor
responseSuccess(c, r, tok) ==
    Settle([c EXCEPT !.retryCount = 0, !.reqs[r].status = 200], r, TRUE, tok, "")

\* the access tokens the server accepts: the ones it minted on refresh
Valid(h) == h > OldToken

ClientInit ==
    /\ isRefreshing = FALSE
    /\ failedQueue = <<>>
    /\ retryCount = 0
    /\ token = OldToken
    /\ tokenExpirationTimer \in BOOLEAN
    /\ csrfToken \in BOOLEAN
    /\ cookieVisible \in BOOLEAN
    /\ accessToken = OldToken
    /\ user = TRUE
    /\ route = "/home"
    /\ reqs = [i \in ReqIds |->
                 IF i \in AppIds THEN NewRequest("app", Caller)
                 ELSE NewRequest("none", Caller)]
    /\ tokenNext = OldToken + 1

\* the client variables after a handler returned c
Becomes(c) ==
    /\ ~c.overflow
    /\ isRefreshing' = c.isRefreshing
    /\ failedQueue' = c.failedQueue
    /\ retryCount' = c.retryCount
    /\ token' = c.token
    /\ tokenExpirationTimer' = c.tokenExpirationTimer
    /\ csrfToken' = c.csrfToken
    /\ cookieVisible' = c.cookieVisible
    /\ accessToken' = c.accessToken
    /\ user' = c.user
    /\ route' = c.route
    /\ reqs' = c.reqs

(***************************************************************************)
(* Actions of SpecClient                                                   *)
(***************************************************************************)
\* the application calls api.get(...) for request r
Send(r) ==
    /\ r \in AppIds
    /\ reqs[r].st = "free"
    /\ Becomes(Dispatch(ClientState, r))
    /\ UNCHANGED tokenNext

\* the server answers request r with 200; a refresh call gets a new access token
Respond200(r) ==
    /\ reqs[r].st = "flight"
    /\ reqs[r].kind \in {"app", "csrf"} => Valid(reqs[r].hdr)
    /\ IF reqs[r].kind = "refresh"
       THEN /\ Becomes(responseSuccess(ClientState, r, tokenNext))
            /\ tokenNext' = tokenNext + 1
       ELSE /\ Becomes(responseSuccess(ClientState, r, NoTok))
            /\ UNCHANGED tokenNext

\* the server answers request r with 401: the access token it carries is not
\* accepted, or (for a refresh call) the renewal cookie is not
Respond401(r) ==
    /\ reqs[r].st = "flight"
    /\ reqs[r].kind \in {"app", "csrf"} => ~Valid(reqs[r].hdr)
    /\ Becomes(responseError(ClientState, r, 401))
    /\ UNCHANGED tokenNext

\* the server answers request r with a 5xx status
Respond500(r) ==
    /\ reqs[r].st = "flight"
    /\ Becomes(responseError(ClientState, r, 500))
    /\ UNCHANGED tokenNext

\* handleUnauthorizedError after its delay: the refresh call is issued
BackoffDone(r) ==
    /\ reqs[r].st = "backoff"
    /\ LET c == [ClientState EXCEPT !.retryCount = @ + 1, !.reqs[r].st = "awaitRefresh"]
       IN Becomes(PostRefresh(c, [by |-> "reactive", req |-> r]))
    /\ UNCHANGED tokenNext

\* handleServerError after its delay: the request is sent again
RetryDelayDone(r) ==
    /\ reqs[r].st = "retryDelay"
    /\ Becomes(Dispatch([ClientState EXCEPT !.retryCount = @ + 1], r))
    /\ UNCHANGED tokenNext

\* the pre-expiry timer fires and calls ApiService.refreshToken
TimerFires ==
    /\ tokenExpirationTimer
    /\ LET c == [ClientState EXCEPT !.tokenExpirationTimer = FALSE] IN
       IF hasRefreshToken(c)
       THEN Becomes(PostRefresh(c, [by |-> "timer", req |-> 0]))
       ELSE Becomes(redirectToLogin(clearAuth(c)))
    /\ UNCHANGED tokenNext

\* the application calls useAuth.refreshToken
UseAuthRefresh ==
    /\ hasRefreshToken(ClientState)
    /\ Becomes(PostRefresh(ClientState, [by |-> "useAuth", req |-> 0]))
    /\ UNCHANGED tokenNext

RetryInit == resends = [r \in ReqIds |-> 0]

\* handleServerError after its delay, with the re-send counted for the request
RetryDelayDoneCounted(r) ==
    /\ resends[r] < MaxResends
    /\ RetryDelayDone(r)
    /\ resends' = [resends EXCEPT ![r] = @ + 1]

(***************************************************************************)
(* useAuth.login and useAuth.logout.  One call at a time; its request goes  *)
(* through the interceptors of the ApiService, and the server's answers are *)
(* drawn from the statuses the two routes produce.                          *)
(***************************************************************************)
NoCall == [op |-> "none", st |-> "idle", retry |-> FALSE, message |-> ""]

UseAuthInit ==
    /\ error = "null"
    /\ call = NoCall

\* the id under which the refresh call of a useAuth call waits in failedQueue
RefreshCallId == NumRequests + 1

\* the message of the body the server sends with a status
ServerMessage(op, status) ==
    IF status >= 500 THEN "Internal Server Error"
    ELSE IF op = "refresh" THEN "Invalid or expired refresh token"
    ELSE IF op = "logout"
    THEN (IF status = 423 THEN "Account is temporarily locked" ELSE "Access token has expired")
    ELSE IF status = 400 THEN "Email and password are required"
    ELSE IF status = 423
    THEN "Account is temporarily locked due to too many failed login attempts"
    ELSE "Invalid email or password"

\* the promise of the call's request is rejected with message
Rejected(c, k, message) ==
    [c |-> c, k |-> [k EXCEPT !.st = "rejected", !.message = message]]

\* the response interceptor for the answer to the request of call k
intercept(c, k, status) ==
    IF status = 200
    THEN [c |-> [c EXCEPT !.retryCount = 0,
                          !.csrfToken = IF k.op = "login" THEN TRUE ELSE @],
          k |-> [k EXCEPT !.st = "resolved"]]
    ELSE IF status = 401 /\ ~k.retry
    THEN \* handleUnauthorizedError
         IF c.isRefreshing
         THEN [c |-> [c EXCEPT !.failedQueue = Append(@, RefreshCallId)],
               k |-> [k EXCEPT !.st = "stuck"]]
         ELSE IF c.retryCount >= maxRetries
         THEN Rejected(redirectToLogin(clearAuth(c)), k, ServerMessage(k.op, status))
         ELSE IF ~hasRefreshToken(c)
         THEN Rejected(redirectToLogin(clearAuth(c)), k, "No refresh token available")
         ELSE [c |-> [c EXCEPT !.isRefreshing = TRUE, !.retryCount = @ + 1],
               k |-> [k EXCEPT !.retry = TRUE, !.st = "refreshing"]]
    ELSE IF status >= 500
    THEN \* handleServerError
         IF c.retryCount < maxRetries
         THEN [c |-> [c EXCEPT !.retryCount = @ + 1], k |-> k]
         ELSE Rejected(c, k, ServerMessage(k.op, status))
    ELSE Rejected(c, k, ServerMessage(k.op, status))

\* the answer to the POST /auth/refresh that handleUnauthorizedError awaits
\* for call k
interceptRefresh(c, k, status, minted) ==
    IF status = 200
    THEN [c |-> [c EXCEPT !.retryCount = 0, !.token = minted,
                          !.tokenExpirationTimer = TRUE, !.isRefreshing = FALSE],
          k |-> [k EXCEPT !.st = "flight"]]
    ELSE IF status = 401
    THEN \* handleUnauthorizedError for the refresh call: isRefreshing is true
         [c |-> [c EXCEPT !.failedQueue = Append(@, RefreshCallId)],
          k |-> [k EXCEPT !.st = "stuck"]]
    ELSE IF c.retryCount < maxRetries
    THEN [c |-> [c EXCEPT !.retryCount = @ + 1], k |-> k]
    ELSE Rejected([redirectToLogin(clearAuth(c)) EXCEPT !.isRefreshing = FALSE], k,
                  ServerMessage("refresh", status))

\* the client variables and the useAuth variables after a step of a call left
\* the client as c, the call as k and error.value as e
Leaves(c, k, e) ==
    /\ Becomes(c)
    /\ call' = k
    /\ error' = e

\* the catch block of useAuth.login: error there is the caught exception, not
\* the ref, so the assignment to error.value does not reach the ref; clearAuth
\* then sets the ref to null
loginFailed(c, k) == Leaves(useAuthClearAuth(c), k, "null")

\* the try block of useAuth.login after api.post resolved
loginResolved(c, k, minted, hasUser) ==
    IF hasUser
    THEN Leaves([c EXCEPT !.accessToken = minted, !.token = minted, !.user = TRUE], k, error)
    ELSE loginFailed(c, [k EXCEPT !.st = "rejected",
                                  !.message = "Invalid login response from server"])

\* the finally block of useAuth.logout: clearAuth and router.push('/login')
logoutFinally(c, k) ==
    Leaves([useAuthClearAuth(c) EXCEPT !.route = "/login"], [k EXCEPT !.st = "resolved"], "null")

\* the application calls useAuth.login(username, password)
UseAuthLogin(username, password) ==
    /\ call.st \in {"idle", "resolved", "rejected"}
    /\ IF username = "" \/ password = ""
       THEN loginFailed(ClientState,
                [op |-> "login", st |-> "rejected", retry |-> FALSE,
                 message |-> "Username and password are required"])
       ELSE \E fetched \in BOOLEAN :
               \* the request interceptor: ensureCsrfToken
               Leaves([ClientState EXCEPT !.csrfToken = @ \/ fetched],
                      [op |-> "login", st |-> "flight", retry |-> FALSE, message |-> ""],
                      "null")
    /\ UNCHANGED tokenNext

\* the application calls useAuth.logout()
UseAuthLogout ==
    /\ call.st \in {"idle", "resolved", "rejected"}
    /\ \E fetched \in BOOLEAN :
          Leaves([ClientState EXCEPT !.csrfToken = @ \/ fetched],
                 [op |-> "logout", st |-> "flight", retry |-> FALSE, message |-> ""],
                 error)
    /\ UNCHANGED tokenNext

\* the statuses POST /auth/login and POST /auth/logout answer with
AnswersTo(op) == IF op = "login" THEN {200, 400, 401, 423, 500} ELSE {200, 401, 423, 500}

\* the server answers the request of the call; hasUser: a 200 login answer
\* carries the user object
CallAnswered(status, hasUser) ==
    /\ call.st = "flight"
    /\ status \in AnswersTo(call.op)
    /\ call.op = "login" => tokenNext <= OldToken + MaxMinted
    /\ LET r == intercept(ClientState, call, status) IN
       IF r.k.st \in {"flight", "refreshing", "stuck"}
       THEN Leaves(r.c, r.k, error) /\ UNCHANGED tokenNext
       ELSE IF call.op = "logout"
       THEN logoutFinally(r.c, r.k) /\ UNCHANGED tokenNext
       ELSE IF r.k.st = "rejected"
       THEN loginFailed(r.c, r.k) /\ UNCHANGED tokenNext
       ELSE /\ loginResolved(r.c, r.k, tokenNext, hasUser)
            /\ tokenNext' = tokenNext + 1

\* the server answers the POST /auth/refresh made for the call
CallRefreshAnswered(status) ==
    /\ call.st = "refreshing"
    /\ status = 200 => tokenNext <= OldToken + MaxMinted
    /\ LET r == interceptRefresh(ClientState, call, status, tokenNext) IN
       /\ IF r.k.st = "rejected"
          THEN IF call.op = "logout" THEN logoutFinally(r.c, r.k) ELSE loginFailed(r.c, r.k)
          ELSE Leaves(r.c, r.k, error)
       /\ tokenNext' = IF status = 200 THEN tokenNext + 1 ELSE tokenNext

(***************************************************************************)
(* The CSRF guard and the assembled application                            *)
(***************************************************************************)
\* a header value that is not a 64-character token
ShortValue == MaxCsrf + 2

\* what a request may carry in X-CSRF-Token: nothing, a token the server
\* minted, or some other string
SuppliedValues == {NoCsrf, ShortValue} \cup (1..MaxCsrf)

Methods == {"GET", "POST"}

SafeMethods == {"GET", "HEAD", "OPTIONS"}

\* the paths of the requests; none is an extension of another, so that
\* startsWith on them is equality
Paths == {"/api/auth/logout", "/api/auth/csrf-token", "/api/auth/refresh"}

skipPaths ==
    {"/api/auth/login", "/api/auth/register", "/api/auth/refresh", "/api/auth/google",
     "/api/auth/microsoft", "/api/auth/github", "/api/logs/siem", "/api/health"}

Credentials == {"valid", "invalid"}

\* Buffer.from(v).length
ByteLength(v) ==
    IF v = NoCsrf THEN 0 ELSE IF v = ShortValue THEN HexLen - 1 ELSE HexLen

\* crypto.timingSafeEqual: throws a RangeError unless both buffers have the
\* same byte length
timingSafeEqual(a, b) ==
    IF ByteLength(a) # ByteLength(b) THEN "RangeError"
    ELSE IF a = b THEN "true" ELSE "false"

\* Security.csrfProtection on request req, whose req.session is sess when
\* req.hasSession: "next", "403", or "throw" when the comparison throws
csrfProtection(req, sess) ==
    IF req.method \in SafeMethods THEN "next"
    ELSE IF req.path \in skipPaths THEN "next"
    ELSE IF ~req.hasSession THEN "403"
    ELSE IF req.supplied = NoCsrf \/ sess.csrfToken = NoCsrf THEN "403"
    ELSE LET eq == timingSafeEqual(req.supplied, sess.csrfToken) IN
         IF eq = "RangeError" THEN "throw"
         ELSE IF eq = "false" THEN "403" ELSE "next"

\* the catch-all error handler of app.js: err.status || 500
ErrorStatus == 500

Request(s, method, path, supplied, credential, hasSession) ==
    [sid |-> s, method |-> method, path |-> path, supplied |-> supplied,
     credential |-> credential, hasSession |-> hasSession]

\* how a request ended: the status it was answered with, whether its route
\* handler ran, the session document afterwards, whether a CSRF token was minted
Ended(status, reached, sess, minted) ==
    [status |-> status, reached |-> reached, session |-> sess, minted |-> minted]

\* the routes of authRoutes.js the requests can hit, with their middleware
Route(req, sess, fresh) ==
    IF req.method = "POST" /\ req.path = "/api/auth/logout"
    THEN IF req.credential # "valid" THEN Ended(401, FALSE, sess, FALSE)
         ELSE Ended(200, TRUE, NewSession, FALSE)
    ELSE IF req.method = "GET" /\ req.path = "/api/auth/csrf-token"
    THEN IF req.credential # "valid" THEN Ended(401, FALSE, sess, FALSE)
         ELSE IF ~req.hasSession THEN Ended(500, TRUE, sess, FALSE)
         ELSE Ended(200, TRUE, generateCsrfToken(sess, fresh), TRUE)
    ELSE Ended(404, FALSE, sess, FALSE)

\* the middleware of app.js in the order app.use registers it
AppStack == <<"csrfGate", "errorHandler", "session", "routes">>

RECURSIVE RunStack(_, _, _, _, _)
\* Express passes the request down the stack; after a throw only an error
\* handler further down takes it
RunStack(stack, req, sess, fresh, thrown) ==
    IF stack = <<>>
    THEN Ended(IF thrown THEN 500 ELSE 404, FALSE, sess, FALSE)
    ELSE LET layer == Head(stack)
             rest == Tail(stack)
         IN IF thrown
            THEN IF layer = "errorHandler" THEN Ended(ErrorStatus, FALSE, sess, FALSE)
                 ELSE RunStack(rest, req, sess, fresh, TRUE)
            ELSE CASE layer = "csrfGate" ->
                        LET v == IF req.path \in {"/health", "/api/health"} \/ ~req.hasSession
                                 THEN "next" ELSE csrfProtection(req, sess)
                        IN IF v = "403" THEN Ended(403, FALSE, sess, FALSE)
                           ELSE RunStack(rest, req, sess, fresh, v = "throw")
                   [] layer = "errorHandler" -> RunStack(rest, req, sess, fresh, FALSE)
                   [] layer = "session" ->
                        RunStack(rest, [req EXCEPT !.hasSession = TRUE], sess, fresh, FALSE)
                   [] layer = "routes" -> Route(req, sess, fresh)

NoOutcome ==
    [op |-> "none", req |-> Request("s1", "GET", "/api/auth/logout", NoCsrf, "invalid", FALSE),
     stored |-> NoCsrf, status |-> 0, reached |-> FALSE]

\* Security.csrfProtection is put before a request that has session s
Guard(s, method, path, supplied) ==
    LET req == Request(s, method, path, supplied, "valid", TRUE)
        v == csrfProtection(req, sessions[s])
    IN /\ out' = [op |-> "csrfProtection", req |-> req, stored |-> sessions[s].csrfToken,
                  status |-> IF v = "403" THEN 403 ELSE IF v = "throw" THEN ErrorStatus ELSE 0,
                  reached |-> v = "next"]
       /\ UNCHANGED <<users, now, sessions, cookies, csrfNext, resp, pre>>

\* a request with the cookie of session s goes through the application
AppRequest(s, method, path, supplied, credential) ==
    LET req == Request(s, method, path, supplied, credential, FALSE)
        e == RunStack(AppStack, req, sessions[s], csrfNext, FALSE)
    IN /\ e.minted => csrfNext <= MaxCsrf
       /\ out' = [op |-> "app", req |-> req, stored |-> sessions[s].csrfToken,
                  status |-> e.status, reached |-> e.reached]
       /\ sessions' = [sessions EXCEPT ![s] = e.session]
       /\ csrfNext' = IF e.minted THEN csrfNext + 1 ELSE csrfNext
       /\ UNCHANGED <<users, now, cookies, resp, pre>>

vars == <<serverVars, clientVars, out, authVars, csrfClientVars, raceVars, useAuthVars, permVars, pwVars, retryVars>>

\* the server on its own: the client stays as it starts
Init ==
    /\ ServerInit
    /\ ClientInit
    /\ ~tokenExpirationTimer /\ ~csrfToken /\ ~cookieVisible
    /\ out = NoOutcome
    /\ AuthInit
    /\ jwtEnv.JWT_SECRET # jwtEnv.JWT_REFRESH_SECRET
    /\ CsrfClientInit
    /\ RaceInit
    /\ UseAuthInit
    /\ PermInit
    /\ PwInit
    /\ RetryInit

Next ==
    \/ \E s \in LoginSessions, email \in Emails, password \in Passwords :
          Login(s, email, password) /\ UNCHANGED <<clientVars, out, authVars, csrfClientVars, raceVars, useAuthVars, permVars, pwVars, retryVars>>
    \/ Tick /\ UNCHANGED <<clientVars, out, authVars, csrfClientVars, raceVars, useAuthVars, permVars, pwVars, retryVars>>

Spec == Init /\ [][Next]_vars

InitClient ==
    /\ ServerInit
    /\ users["b"].isActive
    /\ ClientInit
    /\ out = NoOutcome
    /\ AuthInit
    /\ jwtEnv.JWT_SECRET # jwtEnv.JWT_REFRESH_SECRET
    /\ CsrfClientInit
    /\ RaceInit
    /\ UseAuthInit
    /\ PermInit
    /\ PwInit
    /\ RetryInit

NextClient ==
    \/ \E r \in AppIds : Send(r) /\ UNCHANGED <<serverVars, out, authVars, csrfClientVars, raceVars, useAuthVars, permVars, pwVars, retryVars>>
    \/ \E r \in ReqIds : Respond200(r) /\ UNCHANGED <<serverVars, out, authVars, csrfClientVars, raceVars, useAuthVars, permVars, pwVars, retryVars>>
    \/ \E r \in ReqIds : Respond401(r) /\ UNCHANGED <<serverVars, out, authVars, csrfClientVars, raceVars, useAuthVars, permVars, pwVars, retryVars>>
    \/ \E r \in ReqIds : Respond500(r) /\ UNCHANGED <<serverVars, out, authVars, csrfClientVars, raceVars, useAuthVars, permVars, pwVars, retryVars>>
    \/ \E r \in ReqIds : BackoffDone(r) /\ UNCHANGED <<serverVars, out, authVars, csrfClientVars, raceVars, useAuthVars, permVars, pwVars, retryVars>>
    \/ \E r \in ReqIds : RetryDelayDone(r) /\ UNCHANGED <<serverVars, out, authVars, csrfClientVars, raceVars, useAuthVars, permVars, pwVars, retryVars>>
    \/ TimerFires /\ UNCHANGED <<serverVars, out, authVars, csrfClientVars, raceVars, useAuthVars, permVars, pwVars, retryVars>>
    \/ UseAuthRefresh /\ UNCHANGED <<serverVars, out, authVars, csrfClientVars, raceVars, useAuthVars, permVars, pwVars, retryVars>>

SpecClient == InitClient /\ [][NextClient]_vars

\* the client with the re-sends of each request counted: requests answered
\* 200 and 5xx, and the refresh the pre-expiry timer makes
NextRetry ==
    \/ \E r \in AppIds : Send(r) /\ UNCHANGED <<serverVars, out, authVars, csrfClientVars, raceVars, useAuthVars, permVars, pwVars, retryVars>>
    \/ \E r \in ReqIds : Respond200(r) /\ UNCHANGED <<serverVars, out, authVars, csrfClientVars, raceVars, useAuthVars, permVars, pwVars, retryVars>>
    \/ \E r \in ReqIds : Respond500(r) /\ UNCHANGED <<serverVars, out, authVars, csrfClientVars, raceVars, useAuthVars, permVars, pwVars, retryVars>>
    \/ \E r \in ReqIds : RetryDelayDoneCounted(r) /\ UNCHANGED <<serverVars, out, authVars, csrfClientVars, raceVars, useAuthVars, permVars, pwVars>>
    \/ TimerFires /\ UNCHANGED <<serverVars, out, authVars, csrfClientVars, raceVars, useAuthVars, permVars, pwVars, retryVars>>

SpecRetry == InitClient /\ [][NextRetry]_vars

NextCsrf ==
    \/ \E s \in Sessions, method \in Methods, path \in Paths, supplied \in SuppliedValues :
          Guard(s, method, path, supplied) /\ UNCHANGED <<clientVars, authVars, csrfClientVars, raceVars, useAuthVars, permVars, pwVars, retryVars>>
    \/ \E s \in Sessions, method \in Methods, path \in Paths, supplied \in SuppliedValues,
          credential \in Credentials :
          AppRequest(s, method, path, supplied, credential) /\ UNCHANGED <<clientVars, authVars, csrfClientVars, raceVars, useAuthVars, permVars, pwVars, retryVars>>

SpecCsrf == Init /\ [][NextCsrf]_vars

\* one browser session over time: logins and GET /api/auth/csrf-token issue
\* its token, Security.csrfProtection validates what its requests supply
NextRotate ==
    \/ \E password \in Passwords :
          Login("s1", "a", password) /\ UNCHANGED <<clientVars, out, authVars, csrfClientVars, raceVars, useAuthVars, permVars, pwVars, retryVars>>
    \/ \E method \in Methods, path \in Paths, credential \in Credentials :
          AppRequest("s1", method, path, NoCsrf, credential) /\ UNCHANGED <<clientVars, authVars, csrfClientVars, raceVars, useAuthVars, permVars, pwVars, retryVars>>
    \/ \E method \in Methods, path \in Paths, supplied \in SuppliedValues :
          Guard("s1", method, path, supplied) /\ UNCHANGED <<clientVars, authVars, csrfClientVars, raceVars, useAuthVars, permVars, pwVars, retryVars>>

SpecRotate == Init /\ [][NextRotate]_vars

\* the server with both browsers; account b has been deactivated; the secrets
\* are as the deployment sets them
InitAuth ==
    /\ ServerInit
    /\ ~users["b"].isActive
    /\ ClientInit
    /\ ~tokenExpirationTimer /\ ~csrfToken /\ ~cookieVisible
    /\ out = NoOutcome
    /\ AuthInit
    /\ CsrfClientInit
    /\ RaceInit
    /\ UseAuthInit
    /\ PermInit
    /\ PwInit
    /\ RetryInit

NextAuth ==
    \/ \E s \in Sessions : LoginAs(s, "a", "p") /\ UNCHANGED <<clientVars, out, csrfClientVars, raceVars, useAuthVars, permVars, pwVars, retryVars>>
    \/ Tick /\ UNCHANGED <<clientVars, out, authVars, csrfClientVars, raceVars, useAuthVars, permVars, pwVars, retryVars>>
    \/ \E s \in Sessions : \E cookie \in CookieValues(s), bearer \in {NoToken, access[s]} :
          Refresh(s, cookie, bearer) /\ UNCHANGED <<clientVars, out, csrfClientVars, raceVars, useAuthVars, permVars, pwVars, retryVars>>
    \/ \E s \in Sessions : \E bearer \in BearerValues(s) :
          Logout(s, bearer) /\ UNCHANGED <<clientVars, out, csrfClientVars, raceVars, useAuthVars, permVars, pwVars, retryVars>>

SpecAuth == InitAuth /\ [][NextAuth]_vars

\* one browser of account a, its requests to the protected routes, and changes
\* of the stored roles of a
NextPerm ==
    \/ LoginWithRoles("p") /\ UNCHANGED <<clientVars, out, csrfClientVars, raceVars, useAuthVars, pwVars, retryVars>>
    \/ AuthenticatedRequest /\ UNCHANGED <<clientVars, out, csrfClientVars, raceVars, useAuthVars, pwVars, retryVars>>
    \/ \E rs \in RoleSets :
          UpdateRoles("a", rs) /\ UNCHANGED <<serverVars, clientVars, out, authVars, csrfClientVars, raceVars, useAuthVars, pwVars, retryVars>>
    \/ Tick /\ UNCHANGED <<clientVars, out, authVars, csrfClientVars, raceVars, useAuthVars, permVars, pwVars, retryVars>>

SpecPerm == InitAuth /\ [][NextPerm]_vars

\* the logged-in user a changes the password again and again
NextPassword ==
    \/ \E currentPassword \in PasswordChoices, newPassword \in PasswordChoices :
          ChangePassword(currentPassword, newPassword)
          /\ UNCHANGED <<serverVars, clientVars, out, authVars, csrfClientVars, raceVars, useAuthVars, permVars, retryVars>>
    \/ Tick /\ UNCHANGED <<clientVars, out, authVars, csrfClientVars, raceVars, useAuthVars, permVars, pwVars, retryVars>>

SpecPassword == InitAuth /\ [][NextPassword]_vars

\* two browsers of account a that keep their renewal cookies: logins with the
\* right and with a wrong password, refreshes with the browser's cookie and
\* access token, and logout and logout-all from the first browser
NextRenewal ==
    \/ \E s \in Sessions : LoginAs(s, "a", "p") /\ UNCHANGED <<clientVars, out, csrfClientVars, raceVars, useAuthVars, permVars, pwVars, retryVars>>
    \/ LoginAs("s1", "a", "q") /\ UNCHANGED <<clientVars, out, csrfClientVars, raceVars, useAuthVars, permVars, pwVars, retryVars>>
    \/ Tick /\ UNCHANGED <<clientVars, out, authVars, csrfClientVars, raceVars, useAuthVars, permVars, pwVars, retryVars>>
    \/ \E s \in Sessions : Refresh(s, cookies[s], access[s]) /\ UNCHANGED <<clientVars, out, csrfClientVars, raceVars, useAuthVars, permVars, pwVars, retryVars>>
    \/ Logout("s1", access["s1"]) /\ UNCHANGED <<clientVars, out, csrfClientVars, raceVars, useAuthVars, permVars, pwVars, retryVars>>
    \/ LogoutAll("s1", access["s1"]) /\ UNCHANGED <<clientVars, out, csrfClientVars, raceVars, useAuthVars, permVars, pwVars, retryVars>>

SpecRenewal == InitAuth /\ [][NextRenewal]_vars

\* process.env of a deployment: JWT_SECRET set, or left unset
EnvChoices == {[JWT_SECRET |-> k, JWT_REFRESH_SECRET |-> "k2"] : k \in {"k1", ""}}

InitLogin ==
    /\ ServerInit
    /\ ClientInit
    /\ ~tokenExpirationTimer /\ ~csrfToken /\ ~cookieVisible
    /\ out = NoOutcome
    /\ sessionDocs = [s \in Sessions |-> NewDoc]
    /\ jwtEnv \in EnvChoices
    /\ access = [s \in Sessions |-> NoToken]
    /\ ans = NoAnswer
    /\ logoutAllAt = [e \in Accounts |-> NoDate]
    /\ CsrfClientInit
    /\ RaceInit
    /\ UseAuthInit
    /\ PermInit
    /\ PwInit
    /\ RetryInit

\* one browser posting to /api/auth/login with every email and password, the
\* clock advancing in between
NextLogin ==
    \/ \E email \in Emails, password \in Passwords :
          LoginAs("s1", email, password) /\ UNCHANGED <<clientVars, out, csrfClientVars, raceVars, useAuthVars, permVars, pwVars, retryVars>>
    \/ Tick /\ UNCHANGED <<clientVars, out, authVars, csrfClientVars, raceVars, useAuthVars, permVars, pwVars, retryVars>>

SpecLogin == InitLogin /\ [][NextLogin]_vars

\* the two browsers against the routes behind authenticate: login, refresh
\* with the browser's own cookie or its access token in the cookie's place,
\* logout-all and a protected read
NextSessions ==
    \/ \E s \in Sessions : LoginAs(s, "a", "p") /\ UNCHANGED <<clientVars, out, csrfClientVars, raceVars, useAuthVars, permVars, pwVars, retryVars>>
    \/ Tick /\ UNCHANGED <<clientVars, out, authVars, csrfClientVars, raceVars, useAuthVars, permVars, pwVars, retryVars>>
    \/ \E s \in Sessions : \E cookie \in {cookies[s], access[s]} :
          Refresh(s, cookie, NoToken) /\ UNCHANGED <<clientVars, out, csrfClientVars, raceVars, useAuthVars, permVars, pwVars, retryVars>>
    \/ \E s \in Sessions : \E bearer \in BearerValues(s) :
          LogoutAll(s, bearer) /\ UNCHANGED <<clientVars, out, csrfClientVars, raceVars, useAuthVars, permVars, pwVars, retryVars>>
    \/ \E s \in Sessions : \E bearer \in BearerValues(s) :
          Profile(s, bearer) /\ UNCHANGED <<clientVars, out, csrfClientVars, raceVars, useAuthVars, permVars, pwVars, retryVars>>

SpecSessions == InitAuth /\ [][NextSessions]_vars

\* one browser holding an access token while logins for its account, with the
\* right and with a wrong password, go on
NextIssued ==
    \/ \E password \in {"p", "q"} :
          LoginAs("s1", "a", password) /\ UNCHANGED <<clientVars, out, csrfClientVars, raceVars, useAuthVars, permVars, pwVars, retryVars>>
    \/ Tick /\ UNCHANGED <<clientVars, out, authVars, csrfClientVars, raceVars, useAuthVars, permVars, pwVars, retryVars>>
    \/ \E bearer \in {NoToken, access["s1"]} :
          Profile("s1", bearer) /\ UNCHANGED <<clientVars, out, csrfClientVars, raceVars, useAuthVars, permVars, pwVars, retryVars>>

SpecIssued == InitAuth /\ [][NextIssued]_vars

\* one browser: logins with the right and with a wrong password, and every
\* route that reads the user record without being a login
NextReads ==
    \/ \E password \in {"p", "q"} :
          LoginAs("s1", "a", password) /\ UNCHANGED <<clientVars, out, csrfClientVars, raceVars, useAuthVars, permVars, pwVars, retryVars>>
    \/ Tick /\ UNCHANGED <<clientVars, out, authVars, csrfClientVars, raceVars, useAuthVars, permVars, pwVars, retryVars>>
    \/ \E bearer \in {NoToken, access["s1"]} :
          Profile("s1", bearer) /\ UNCHANGED <<clientVars, out, csrfClientVars, raceVars, useAuthVars, permVars, pwVars, retryVars>>
    \/ Refresh("s1", cookies["s1"], NoToken) /\ UNCHANGED <<clientVars, out, csrfClientVars, raceVars, useAuthVars, permVars, pwVars, retryVars>>
    \/ Logout("s1", access["s1"]) /\ UNCHANGED <<clientVars, out, csrfClientVars, raceVars, useAuthVars, permVars, pwVars, retryVars>>
    \/ LogoutAll("s1", access["s1"]) /\ UNCHANGED <<clientVars, out, csrfClientVars, raceVars, useAuthVars, permVars, pwVars, retryVars>>

SpecReads == InitAuth /\ [][NextReads]_vars

\* login requests with a wrong password for account a, handled at the same time
NextConcurrent ==
    \/ \E i \in LoginIds :
          LoginFind(i, "q") /\ UNCHANGED <<clientVars, out, csrfClientVars, useAuthVars, permVars, pwVars, retryVars>>
    \/ \E i \in LoginIds : LoginSave(i) /\ UNCHANGED <<clientVars, out, csrfClientVars, useAuthVars, permVars, pwVars, retryVars>>
    \/ Tick /\ UNCHANGED <<clientVars, out, authVars, csrfClientVars, raceVars, useAuthVars, permVars, pwVars, retryVars>>

SpecConcurrent == InitAuth /\ [][NextConcurrent]_vars

\* the browser as the application starts a useAuth call: logged out on the
\* login page, or logged in with a stored token
InitUseAuth ==
    /\ ServerInit
    /\ users["b"].isActive
    /\ isRefreshing = FALSE
    /\ failedQueue = <<>>
    /\ retryCount = 0
    /\ \/ token = NoTok /\ accessToken = NoTok /\ user = FALSE /\ route = "/login"
          /\ tokenExpirationTimer = FALSE
       \/ token = OldToken /\ accessToken = OldToken /\ user = TRUE /\ route = "/home"
          /\ tokenExpirationTimer \in BOOLEAN
    /\ csrfToken \in BOOLEAN
    /\ cookieVisible \in BOOLEAN
    /\ reqs = [i \in ReqIds |->
                 IF i \in AppIds THEN NewRequest("app", Caller)
                 ELSE NewRequest("none", Caller)]
    /\ tokenNext = OldToken + 1
    /\ out = NoOutcome
    /\ AuthInit
    /\ jwtEnv.JWT_SECRET # jwtEnv.JWT_REFRESH_SECRET
    /\ CsrfClientInit
    /\ RaceInit
    /\ UseAuthInit
    /\ PermInit
    /\ PwInit
    /\ RetryInit

UseAuthFrame == UNCHANGED <<serverVars, out, authVars, csrfClientVars, raceVars, permVars, pwVars, retryVars>>

NextUseAuth ==
    \/ \E username \in {"a", ""}, password \in {"p", ""} :
          UseAuthLogin(username, password) /\ UseAuthFrame
    \/ UseAuthLogout /\ UseAuthFrame
    \/ \E status \in {200, 400, 401, 423, 500}, hasUser \in BOOLEAN :
          CallAnswered(status, hasUser) /\ UseAuthFrame
    \/ \E status \in {200, 401, 500} : CallRefreshAnswered(status) /\ UseAuthFrame

SpecUseAuth == InitUseAuth /\ [][NextUseAuth]_vars

\* every request the client has sent is answered: by the server, or by the
\* timeout of axios, which the interceptor treats as a failed request
SpecUseAuthFair ==
    /\ SpecUseAuth
    /\ WF_vars(\E status \in {200, 400, 401, 423, 500}, hasUser \in BOOLEAN :
                  CallAnswered(status, hasUser) /\ UseAuthFrame)
    /\ WF_vars(\E status \in {200, 401, 500} : CallRefreshAnswered(status) /\ UseAuthFrame)

\* the rest of the state while the client's CSRF token is followed
CsrfClientFrame ==
    UNCHANGED <<users, now, cookies, resp, pre, clientVars, out, authVars, raceVars, useAuthVars, permVars, pwVars, retryVars>>

NextCsrfClient ==
    \/ \E p \in PostIds : StartPost(p) /\ CsrfClientFrame
    \/ \E p \in PostIds : ServeFetch(p) /\ CsrfClientFrame
    \/ \E p \in PostIds : FailFetch(p) /\ CsrfClientFrame
    \/ \E p \in PostIds : FetchDone(p) /\ CsrfClientFrame
    \/ \E p \in PostIds : ValidatePost(p) /\ CsrfClientFrame

SpecCsrfClient == Init /\ [][NextCsrfClient]_vars

(***************************************************************************)
(* Claims about the lockout state machine (checked under Spec).  resp and  *)
(* pre describe the last handled login: its inputs, the time it was        *)
(* handled at, its response, and the user documents it found.              *)
(***************************************************************************)
LastLoginOn(e) == resp.op = "login" /\ resp.email = e /\ e \in Accounts

\* C1: counting consecutive failed logins from failedAttempts = 0, the account
\* stays unlocked while fewer than MaxAttempts failures are recorded; the
\* failure that brings the count to MaxAttempts sets isLocked and
\* lockUntil = now + LockTime; and a login attempt made while the lock is in
\* force is answered 423 without the password being compared, whatever the
\* supplied password is, and changes no user document.
C1_LockAtThreshold ==
    \A e \in Accounts :
        /\ users[e].failedLoginAttempts < MaxAttempts =>
             ~users[e].isLocked /\ ~isAccountLocked(users[e], now)
        /\ LastLoginOn(e) =>
             /\ resp.password # "" /\ pre[e].isActive
                  /\ ~isAccountLocked(pre[e], resp.at)
                  /\ ~comparePassword(pre[e], resp.password) =>
                    /\ resp.status = 401 /\ resp.pwChecked
                    /\ users[e].failedLoginAttempts = pre[e].failedLoginAttempts + 1
             /\ users[e].failedLoginAttempts = pre[e].failedLoginAttempts + 1
                  /\ users[e].failedLoginAttempts = MaxAttempts =>
                    /\ users[e].isLocked
                    /\ users[e].lockUntil = resp.at + LockTime
                    /\ isAccountLocked(users[e], resp.at)
             /\ resp.password # "" /\ isAccountLocked(pre[e], resp.at) =>
                  /\ resp.status = 423
                  /\ ~resp.pwChecked
                  /\ users = pre

\* C1 witness: the account took MaxAttempts failures, is locked, and the
\* attempt after them was answered 423 with the right password supplied.
C1_Witness ==
    \E e \in Accounts :
        /\ LastLoginOn(e) /\ resp.status = 423
        /\ resp.password = users[e].password
        /\ users[e].failedLoginAttempts = MaxAttempts
        /\ isAccountLocked(users[e], now)

\* C2: a login answered 200 leaves failedLoginAttempts = 0, isLocked = FALSE
\* and lockUntil = null, whatever the user document held before it.
C2_SuccessResetsLockout ==
    \A e \in Accounts :
        LastLoginOn(e) /\ resp.status = 200 =>
            /\ users[e].failedLoginAttempts = 0
            /\ users[e].isLocked = FALSE
            /\ users[e].lockUntil = NoDate

\* C2 witness: a login was answered 200 for an account that had MaxAttempts
\* failures and an expired lock recorded just before it.
C2_Witness ==
    \E e \in Accounts :
        /\ LastLoginOn(e) /\ resp.status = 200
        /\ pre[e].failedLoginAttempts >= MaxAttempts
        /\ pre[e].isLocked
        /\ users[e].failedLoginAttempts = 0

\* the user document of an account that was never locked and has no failure
NeverLocked(u) ==
    [u EXCEPT !.failedLoginAttempts = 0, !.isLocked = FALSE, !.lockUntil = NoDate]

\* C3: when lockUntil lies in the past, the next login attempt has the same
\* response and leaves the account in the same lock status as the same attempt
\* made on the account had it never been locked.
C3_LazyUnlockIdempotent ==
    \A e \in Accounts :
        /\ LastLoginOn(e)
        /\ pre[e].lockUntil # NoDate
        /\ pre[e].lockUntil <= resp.at
        => LET never == login([pre EXCEPT ![e] = NeverLocked(@)], NewSession, NoToken,
                              csrfNext, e, resp.password, resp.at)
           IN /\ resp.status = never.resp.status
              /\ isAccountLocked(users[e], resp.at)
                   = isAccountLocked(never.users[e], resp.at)

\* C4: the login that records the MaxAttempts-th consecutive wrong password is
\* itself answered 423 and its response carries a lockUntil at least LockTime
\* ahead of the time of the request.
C4_FifthFailureAnswers423 ==
    \A e \in Accounts :
        /\ LastLoginOn(e)
        /\ resp.password # ""
        /\ ~comparePassword(pre[e], resp.password)
        /\ pre[e].isActive
        /\ pre[e].failedLoginAttempts = MaxAttempts - 1
        => /\ resp.status = 423
           /\ resp.lockUntil >= resp.at + LockTime

(***************************************************************************)
(* Claims about the client's refresh (SpecClient)                          *)
(***************************************************************************)
InQueue(r) == \E k \in DOMAIN failedQueue : failedQueue[k] = r

RefreshCalls == {q \in ReqIds : reqs[q].kind = "refresh"}

ReactiveRefreshCalls == {q \in RefreshCalls : reqs[q].owner.by = "reactive"}

\* C5: when all K application requests carried the expired credential and
\* were answered 401, and no timer or manual refresh was started, at most one
\* refresh call is issued, and once all K have completed they completed alike
\* (all succeeded, or all failed with the same error), whatever the order of
\* the answers.
C5_OneRefreshForConcurrent401s ==
    (/\ \A r \in AppIds : reqs[r].seen401
     /\ RefreshCalls = ReactiveRefreshCalls)
    => /\ Cardinality(ReactiveRefreshCalls) <= 1
       /\ (\A r \in AppIds : reqs[r].st = "done")
          => \A r1, r2 \in AppIds : reqs[r1].res = reqs[r2].res

\* C6: at most one POST /auth/refresh is outstanding at any moment, whichever
\* of the reactive path, the timer and the manual call started it.
C6_AtMostOneRefreshOutstanding ==
    Cardinality({q \in RefreshCalls : reqs[q].st = "flight"}) <= 1

\* C7: when the refresh call of the reactive path is answered 401, handling
\* that answer rejects the refresh call and every waiter, sets isRefreshing
\* back to false, clears the stored credentials and redirects to the login
\* page.
C7_FailedRefreshRejectsAll ==
    [][\A q \in ReactiveRefreshCalls :
          (reqs[q].st = "flight" /\ reqs'[q].status = 401 /\ reqs'[q].st # "flight")
          => /\ reqs'[q].st = "done"
             /\ \A r \in ReqIds : InQueue(r) =>
                   reqs'[r].st = "done" /\ reqs'[r].res # "ok"
             /\ failedQueue' = <<>>
             /\ ~isRefreshing'
             /\ token' = NoTok /\ ~csrfToken'
             /\ route' = "/login"]_vars

\* C8: a waiter leaves the queue only when processQueue has run, after the new
\* token was stored; all waiters of one refresh get the same outcome (the
\* token that refresh returned, or its error); a waiter that got a token is
\* re-sent with that token or a later one, never with the expired one; a
\* waiter that got an error is rejected with it.
C8_DrainBeforeRetry ==
    /\ \A r \in ReqIds : InQueue(r) <=> reqs[r].st = "queued"
    /\ failedQueue # <<>> => isRefreshing
    /\ \A r \in ReqIds : reqs[r].st # "drained"
    /\ \A r \in ReqIds : reqs[r].got # NoGot /\ reqs[r].got.ok =>
          /\ reqs[r].got.by \in ReactiveRefreshCalls
          /\ reqs[r].got.tok = reqs[reqs[r].got.by].minted
          /\ Valid(reqs[r].got.tok)
          /\ reqs[r].hdr >= reqs[r].got.tok
          /\ reqs[r].st \in {"flight", "done", "queued", "backoff", "awaitRefresh",
                             "retryDelay", "ensureCsrf"}
    /\ \A r \in ReqIds : reqs[r].got # NoGot /\ ~reqs[r].got.ok =>
          /\ reqs[r].st = "done"
          /\ reqs[r].res = reqs[r].got.err
    /\ \A r1, r2 \in ReqIds :
          (/\ reqs[r1].got # NoGot /\ reqs[r2].got # NoGot
           /\ reqs[r1].got.by = reqs[r2].got.by /\ reqs[r1].got.by # 0)
          => reqs[r1].got = reqs[r2].got

\* two waiters of one refresh were drained with its token and re-sent
C8_Witness ==
    \E r1, r2 \in ReqIds :
        /\ r1 # r2
        /\ reqs[r1].got.ok /\ reqs[r2].got.ok
        /\ reqs[r1].got.by = reqs[r2].got.by
        /\ reqs[r1].st = "flight" /\ reqs[r2].st = "flight"
        /\ reqs[r1].hdr = token /\ reqs[r2].hdr = token
        /\ ~isRefreshing

(***************************************************************************)
(* Claims about the CSRF guard (SpecCsrf)                                  *)
(***************************************************************************)
StateChanging(req) == req.method \notin SafeMethods /\ req.path \notin skipPaths

\* C9: a state-changing request to a path outside the skip list that carries
\* an X-CSRF-Token value other than the token stored in its own session (the
\* token of another session, or any other value of any length) is answered
\* 403 by csrfProtection and does not reach its handler.
C9_ForeignTokenRejected ==
    (/\ out.op = "csrfProtection"
     /\ StateChanging(out.req)
     /\ out.req.supplied # out.stored)
    => out.status = 403 /\ ~out.reached

\* C10: in the application as app.js assembles it, a state-changing request to
\* a path outside the skip list with a valid access credential and no
\* X-CSRF-Token header is answered 403 and does not reach its handler.
C10_MissingTokenRejectedByApp ==
    (/\ out.op = "app"
     /\ StateChanging(out.req)
     /\ out.req.credential = "valid"
     /\ out.req.supplied = NoCsrf)
    => out.status = 403 /\ ~out.reached

(***************************************************************************)
(* Claims about credentials and sessions on the server (SpecAuth)          *)
(***************************************************************************)
\* C11: after a successful POST /auth/refresh on a session that held a CSRF
\* token, the session holds a different CSRF token (the one held before the
\* refresh is no longer the stored one).
C11_RefreshRotatesCsrf ==
    (/\ ans.op = "refresh" /\ ans.status = 200
     /\ ans.csrfBefore # NoCsrf)
    => sessions[ans.sid].csrfToken # ans.csrfBefore

\* C12 (SpecCsrfClient): every state-changing request that was sent with an
\* X-CSRF-Token header and that the server has validated carried the token
\* the session stored at that moment.
C12_NoStaleCsrfSent ==
    \A p \in PostIds :
        (posts[p].st = "validated" /\ posts[p].hdr # NoCsrf)
        => posts[p].hdr = posts[p].stored

\* the cookie of the last request is a renewal credential that verifies under
\* the renewal secret, is unexpired at the time of the request, and names an
\* account that exists and is active
RenewalAcceptable ==
    /\ ans.cookie # NoToken
    /\ ans.cookie.kind # "malformed"
    /\ ans.cookie.key = jwtEnv.JWT_REFRESH_SECRET
    /\ ans.at < ans.cookie.exp
    /\ ans.cookie.sub \in Accounts
    /\ users[ans.cookie.sub].isActive

BearerAccepted == authenticate(users, ans.bearer, ans.at).status = 0

\* C14 (SpecAuth): a logout that carries an accepted access credential
\* answers 200 whether or not the session still holds anything (so a second
\* logout succeeds like the first), and after it the session has no CSRF
\* token and no user and the renewal cookie is cleared.
C14_LogoutIdempotent ==
    ans.op = "logout" =>
        /\ BearerAccepted <=> ans.status = 200
        /\ ans.status = 200 =>
              /\ sessions[ans.sid] = NewSession
              /\ cookies[ans.sid] = NoToken

\* a logout on a session that an earlier logout had already destroyed (the
\* browser was logged in, the session held nothing any more) answered 200
C14_Witness ==
    /\ ans.op = "logout" /\ ans.status = 200
    /\ ans.bearer = access[ans.sid] /\ ans.bearer.kind = "access"
    /\ ans.csrfBefore = NoCsrf /\ ans.cookie = NoToken
    /\ sessions[ans.sid] = NewSession /\ cookies[ans.sid] = NoToken

\* the account the last request was authenticated as
AnsUser == authenticated(users, ans.bearer, ans.at).user

\* session s, presenting the CSRF token it stores, passes csrfProtection
OwnCsrfValidates(s) ==
    csrfProtection(Request(s, "POST", "/api/auth/logout", sessions[s].csrfToken, "valid", TRUE),
                   sessions[s]) = "next"

\* C15 (SpecSessions): after a successful logout-all by U, no session is left
\* that belongs to U: none is listed active for U, and no session of U keeps
\* a CSRF token that still validates.
C15_LogoutAllInvalidatesAll ==
    (ans.op = "logoutAll" /\ ans.status = 200) =>
        \A s \in Sessions :
            /\ s \notin getActiveSessionsForUser(sessionDocs, AnsUser)
            /\ sessions[s].userId = AnsUser => ~OwnCsrfValidates(s)

\* C16 (SpecSessions): once U has logged out everywhere and every access
\* credential issued up to then has expired (AccessTtl later), no request is
\* authenticated as U until U logs in again.
C16_NoAuthAfterLogoutAll ==
    (ans.op = "profile" /\ ans.status = 200) =>
        ~(/\ logoutAllAt[AnsUser] # NoDate
          /\ ans.at >= logoutAllAt[AnsUser] + AccessTtl)

\* the last request presented a token minted as one kind where the other
\* kind is verified, and was accepted
KindCrossed ==
    \/ ans.op \in {"profile", "logoutAll"} /\ ans.bearer.kind = "refresh" /\ ans.status = 200
    \/ ans.op = "refresh" /\ ans.cookie.kind = "access" /\ ans.status = 200

\* C17 as stated (SpecSessions): a token minted as a renewal credential is
\* never accepted by authenticate, and a token minted as an access credential
\* is never accepted by refresh.
C17_KindsNotInterchangeable == ~KindCrossed

\* C17 (SpecSessions): when JWT_SECRET and JWT_REFRESH_SECRET are configured
\* with different values, a token minted as a renewal credential is never
\* accepted by authenticate and a token minted as an access credential is
\* never accepted by refresh.
C17_KindsSeparateUnderDistinctSecrets ==
    jwtEnv.JWT_SECRET # jwtEnv.JWT_REFRESH_SECRET => ~KindCrossed

\* with different secrets, an unexpired renewal credential of an active user
\* was presented as the Bearer token of a protected route and refused
C17_Witness ==
    /\ jwtEnv.JWT_SECRET # jwtEnv.JWT_REFRESH_SECRET
    /\ ans.op = "profile" /\ ans.bearer.kind = "refresh" /\ ans.bearer.exp > ans.at
    /\ ans.bearer.sub = "a" /\ users["a"].isActive
    /\ ans.status = 401

\* the tokens of toks that the verification under secret refuses now
FailsVerify(toks, secret) ==
    {tok \in toks : tok # NoToken /\ verify(tok, secret, now) # "ok"}

\* authenticate answers any two Bearer tokens that fail verification alike
AuthenticateUniform ==
    \A t1, t2 \in FailsVerify(UNION {BearerValues(s) : s \in Sessions}, jwtEnv.JWT_SECRET) :
        LET r1 == authenticate(users, t1, now)
            r2 == authenticate(users, t2, now)
        IN r1.status = r2.status /\ r1.message = r2.message

\* refresh answers any two cookies that fail verification alike
RefreshUniform ==
    \A t1, t2 \in FailsVerify(UNION {CookieValues(s) : s \in Sessions}, jwtEnv.JWT_REFRESH_SECRET) :
        LET r1 == refreshToken(users, "s1", t1, NoToken, NoCsrf, now)
            r2 == refreshToken(users, "s1", t2, NoToken, NoCsrf, now)
        IN r1.status = r2.status /\ r1.message = r2.message

\* C18 (SpecSessions): a malformed token, a token with a bad signature and
\* an expired token get the same status and the same body from the endpoint
\* that verifies them, authenticate as well as refresh.
C18_VerificationFailsUniformly == AuthenticateUniform /\ RefreshUniform

\* C19 (SpecIssued): a correctly signed, unexpired access credential is
\* accepted whatever has happened to the user record since it was issued
\* (here: the account was locked by failed logins).
C19_AcceptedOnSignatureAndExpiryOnly ==
    (/\ ans.op = "profile"
     /\ ans.bearer.kind = "access"
     /\ verify(ans.bearer, jwtEnv.JWT_SECRET, ans.at) = "ok") => ans.status = 200

\* C20 (SpecSessions): a request whose Bearer token is at or past its exp
\* claim is answered 401 by authenticate, and isAuthenticated is false for a
\* stored token that is at or past its exp claim.
C20_NeverAcceptedAfterExpiry ==
    /\ (/\ ans.op \in {"profile", "logoutAll"}
        /\ ans.bearer.kind \in {"access", "refresh"}
        /\ ans.at >= ans.bearer.exp) => ans.status = 401
    /\ \A s \in Sessions :
          (access[s] # NoToken /\ now >= access[s].exp) => ~isAuthenticated(access[s], now)

\* a protected request carried a correctly signed access token exactly at its
\* expires-at time and was answered 401, and the client holding that token
\* reports not authenticated
C20_Witness ==
    /\ ans.op = "profile" /\ ans.bearer.kind = "access"
    /\ ans.bearer.key = jwtEnv.JWT_SECRET
    /\ ans.at = ans.bearer.exp /\ ans.status = 401
    /\ access[ans.sid] = ans.bearer /\ now = ans.at
    /\ ~isAuthenticated(access[ans.sid], now)

\* what login answers, at the time of the last request and with its
\* password, for an email that maps to no account
UnknownEmailAnswer ==
    login(pre, NewSession, NoToken, csrfNext, "x", resp.password, resp.at).resp

\* C21 (Spec): a login with a wrong password for an existing account that is
\* not locked, active or not, gets the status and message that an unknown
\* email gets, and an unknown email is never answered 423.
C21_UniformInvalidCredentials ==
    resp.op = "login" =>
        /\ (/\ resp.email \in Accounts
            /\ resp.password # ""
            /\ ~comparePassword(pre[resp.email], resp.password)
            /\ ~isAccountLocked(pre[resp.email], resp.at))
           => /\ resp.status = UnknownEmailAnswer.status
              /\ resp.message = UnknownEmailAnswer.message
        /\ resp.email \notin Accounts => resp.status # 423

\* the lockout fields of a user document
LockFields(u) == <<u.failedLoginAttempts, u.isLocked, u.lockUntil>>

\* C22 (SpecReads): failedLoginAttempts of an account goes down only to zero
\* and only in a successful login of that account, and a step that is not a
\* login (profile, refresh, logout, logout-all, the clock) leaves
\* failedLoginAttempts, isLocked and lockUntil of every account as they were.
C22_FailedAttemptsMonotone ==
    [][\A e \in Accounts :
          /\ users'[e].failedLoginAttempts < users[e].failedLoginAttempts
                => /\ users'[e].failedLoginAttempts = 0
                   /\ ans'.op = "login" /\ ans'.status = 200
                   /\ ans'.accessToken.sub = e
          /\ LockFields(users'[e]) # LockFields(users[e]) => ans'.op = "login"]_vars

\* a protected read was answered for an account whose lock had run out, and
\* the counter and the lock fields are still as the failed logins left them
C22_Witness ==
    /\ ans.op = "profile" /\ ans.status = 200 /\ ans.at = now
    /\ users["a"].failedLoginAttempts >= MaxAttempts
    /\ users["a"].isLocked /\ users["a"].lockUntil # NoDate
    /\ ~isAccountLocked(users["a"], now)

\* C23 (SpecConcurrent): however the handlers of concurrent login requests
\* interleave, the counter of the account equals the number of failed
\* password checks since its last reset, and the account is locked once that
\* number has reached the threshold.
C23_NoLostIncrement ==
    /\ users["a"].failedLoginAttempts = failedChecks["a"]
    /\ failedChecks["a"] >= MaxAttempts => users["a"].isLocked

\* C24 (Spec): in every state, a user document with isLocked true has a
\* lockUntil that is set and later than the clock.
C24_LockedImpliesFutureLockUntil ==
    \A e \in Accounts :
        users[e].isLocked => (users[e].lockUntil # NoDate /\ users[e].lockUntil > now)

\* C25 (SpecUseAuth): when useAuth.login has succeeded, the client holds the
\* new access credential and the timer that refreshes it ahead of its expiry
\* is armed.
C25_TimerArmedAfterLogin ==
    (call.op = "login" /\ call.st = "resolved") => tokenExpirationTimer

\* C26 (SpecClient): a POST /auth/refresh that was answered 401 is not sent
\* again and is not left waiting: its promise is rejected, and the client has
\* been sent to the login page.
C26_Refresh401NotRetried ==
    \A r \in ReqIds :
        (reqs[r].kind = "refresh" /\ reqs[r].seen401) =>
            /\ reqs[r].st = "done" /\ reqs[r].res # "ok"
            /\ route = "/login"

\* C27 (SpecRotate): a session stores at most one CSRF token, the one issued
\* last (every issue overwrites the stored value), and csrfProtection lets a
\* state-changing request carrying a token pass exactly when that token is the
\* stored one; every other token, the earlier ones of the session included,
\* is answered 403.
C27_OnlyLatestTokenValidates ==
    /\ sessions["s1"].csrfToken \in {NoCsrf, csrfNext - 1}
    /\ (out.op = "csrfProtection" /\ StateChanging(out.req) /\ out.req.supplied \in 1..MaxCsrf) =>
           /\ out.reached <=> out.req.supplied = out.stored
           /\ ~out.reached => out.status = 403

\* the session was issued token 1 and then token 2; a request carrying
\* token 1 has been refused
C27_Witness ==
    /\ out.op = "csrfProtection" /\ StateChanging(out.req)
    /\ out.req.supplied = 1 /\ out.stored = 2 /\ sessions["s1"].csrfToken = 2
    /\ out.status = 403 /\ ~out.reached

\* C28 (SpecPerm): the abilities of an authenticated request are those of the
\* roles embedded in its access credential, so every request made with one
\* credential gets the abilities the first one got, whatever has happened to
\* the stored roles of the user since.
C28_AbilityFromCredentialRoles ==
    reqAbility.last # NoAbility =>
        /\ reqAbility.last = defineAbilityFor(reqAbility.bearer.sub, payloadRoles["s1"])
        /\ reqAbility.last = reqAbility.first

\* local authentication state is cleared: user null, accessToken null, the
\* stored token removed, isAuthenticated false
LocalAuthCleared == ~user /\ accessToken = NoTok /\ token = NoTok

\* C29 (SpecUseAuthFair): a call of useAuth.logout always comes to its end
\* with local authentication state cleared and the router on the login page,
\* whatever the server answers to the logout request.
C29_LogoutAlwaysClears ==
    (call.op = "logout" /\ call.st = "flight") ~>
        (call.op = "logout" /\ call.st = "resolved" /\ LocalAuthCleared /\ route = "/login")

\* C30 (SpecUseAuth): after a useAuth.login that failed, error.value is the
\* message of the failure; after one that succeeded, error.value is null.
C30_ErrorHoldsFailureMessage ==
    call.op = "login" =>
        /\ call.st = "rejected" => error = call.message
        /\ call.st = "resolved" => error = "null"

\* the hashes account a has had, oldest first, going by the answers of
\* change-password
HashesHad == <<bcryptHash("p")>> \o [i \in 1..Len(accepted) |-> bcryptHash(accepted[i])]

\* the last (up to) n elements of a sequence
LastOf(seq, n) == IF Len(seq) <= n THEN seq ELSE SubSeq(seq, Len(seq) - n + 1, Len(seq))

\* C31 (SpecPassword): after any sequence of password changes the
\* passwordHistory of the account is the (up to) 5 most recent previous
\* password hashes, oldest first, and a change-password that was answered 200
\* had a new password matching no entry of the history.
C31_HistoryHoldsRecentHashes ==
    /\ passwordDoc.passwordHistory =
           LastOf(SubSeq(HashesHad, 1, Len(HashesHad) - 1), HistorySize)
    /\ changeAns.status = 200 => ~isPasswordUsedBefore(changeAns.before, changeAns.newPassword)

\* C37 (SpecPassword): a change-password whose new password is the password
\* the account had just before the call is not answered 200: it is rejected
\* as reuse.
C37_CurrentPasswordRejectedAsNew ==
    (/\ changeAns.status # 0
     /\ bcryptCompare(changeAns.currentPassword, changeAns.before.passwordHash)
     /\ changeAns.newPassword = changeAns.currentPassword) =>
        /\ changeAns.status = 400
        /\ changeAns.message = "New password cannot be the same as a previously used password"

\* C32 (SpecCsrf): csrfProtection lets a request through without looking at
\* tokens exactly when its method is GET, HEAD or OPTIONS or its path is on
\* the skip list; any other request that has a session passes exactly when it
\* supplies a token equal to the session's token, and is answered 403 when it
\* does not pass.
C32_SkipOrValidate ==
    out.op = "csrfProtection" =>
        IF out.req.method \in SafeMethods \/ out.req.path \in skipPaths
        THEN out.reached
        ELSE /\ out.reached <=> (out.req.supplied # NoCsrf /\ out.req.supplied = out.stored)
             /\ ~out.reached => out.status = 403

C35_ResendsBounded ==
    \A r \in ReqIds : resends[r] <= maxRetries

\* C36: whenever useAuth reports isAuthenticated (its accessToken and user are
\* both set), the token store of ApiService holds that same access token; so
\* after ApiService cleared the credentials on a failed refresh, useAuth no
\* longer reports isAuthenticated
C36_HoldersConsistent ==
    (accessToken # NoTok /\ user) => token = accessToken

\* the counters and lock fields of a user document
CountersAndLock == {"failedLoginAttempts", "isLocked", "lockUntil"}

\* C38: a login request that is not answered 200 mints no access or renewal
\* credential, sets no renewal cookie and leaves the session's csrfToken and
\* userId as they were; it changes a user document only when the password was
\* wrong, and then only the attempt counters and lock fields of that account
C38_FailedLoginLeavesNoTrace ==
    [][\A email \in Emails, password \in Passwords :
         (LoginAs("s1", email, password) /\ ans'.status # 200) =>
            /\ ans'.accessToken = NoToken
            /\ access' = access
            /\ cookies' = cookies
            /\ sessions' = sessions
            /\ users' # users =>
                  /\ ToLowerCase(email) \in Accounts
                  /\ ~comparePassword(users[ToLowerCase(email)], password)
                  /\ \A e \in Accounts \ {ToLowerCase(email)} : users'[e] = users[e]
                  /\ \A f \in DOMAIN users[ToLowerCase(email)] \ CountersAndLock :
                        users'[ToLowerCase(email)][f] = users[ToLowerCase(email)][f]]_vars

====
